---- MODULE Spec2Model ----
(***************************************************************************)
(* Model of laravel-session-sdk: LaravelSessionClient.validateSession,     *)
(* SessionValidator.validate, SessionDecoder's extraction helpers and the  *)
(* DatabaseStore / RedisStore adapters, and SessionDecoder.decrypt.         *)
(*                                                                         *)
(* One validation call is a sequential pipeline that suspends at every     *)
(* store call (await); each action below is the code that runs between two *)
(* suspension points.  The stores are read-only for the SDK, so the store  *)
(* contents are chosen in Init and never change.                           *)
(***************************************************************************)
EXTENDS Integers, Sequences, FiniteSets, TLC

VARIABLES
    config,         \* LaravelSessionConfig handed to the client constructor
    sessionsTable,  \* relational `sessions` table: session id -> row | NoRow
    redisKeys,      \* key-value store: session id -> entry | NoRow
    usersTable,     \* relational `users` table: user id -> row | NoRow
    userRoles,      \* user_roles JOIN roles: user id -> sequence of role names
    permissionTables, \* modules, module_permissions, links, link_permissions
    pc,             \* position of the validate call (its pending await)
    cookie,         \* validateSession's argument: the cookie value received
    decrypted,      \* what decoder.decrypt(cookie) returned or threw
    deciphers,      \* block decryptions (createDecipheriv runs) in this call
    sessionId,      \* validate's argument
    session,        \* const session = await store.getSession(sessionId)
    sessionData,    \* decoder.decode(session.payload)
    userId,         \* decoder.getUserId(sessionData)
    extracted,      \* decoder.getPermissions(sessionData) at step 10
    user,           \* await store.getUser(userId)
    role,           \* await store.getUserRole(userId)
    outcome,        \* "none" | "returned" | "threw"
    result,         \* the SessionValidationResult returned
    thrown,         \* message of the Error validate rejected with
    calls,          \* store methods the validator has called, in order
    checks,         \* gates the validator has evaluated, in order
    fallbackRuns,   \* runs of DatabaseStore.getAllPermissionsFromDatabase
    permThrows,     \* store permission lookups that threw in this call
    decodeThrows,   \* decode exceptions raised in this call
    classMap,       \* PhpSerializer's module-level class registry
    registered,     \* class names passed to addClassMapping so far
    mappings,       \* the object a caller got from getClassMappings
    parsed,         \* the latest direct PhpSerializer.unserialize call
    decodeSaw,      \* the registry as the decodes of this call found it
    globalLogLevel, \* SecurityUtils' module-level log verbosity
    logs,           \* what the log calls of this validation received
    faults,         \* which queries of this call's store.getSession failed
    levelCalls,     \* the setLogLevel calls made so far, in order
    connected,      \* RedisStore.connected
    socket,         \* the Redis client's socket: closed, opening or open
    connects,       \* calls of client.connect() so far
    inflight,       \* concurrent validateSession calls, at store.getSession
    closing,        \* position of the RedisStore.close() call
    poolEnded,      \* dbStore's pool.end() has resolved
    mwpc,           \* position of the middleware call: idle, awaiting, done
    req,            \* the request: its session cookie and laravelSession
    res,            \* the responses sent for the request, in order
    nextCalls       \* calls of next() for the request

vars == <<config, sessionsTable, redisKeys, usersTable, userRoles,
          permissionTables, pc,
          cookie, decrypted, deciphers, sessionId, session, sessionData, userId,
          extracted, user, role, outcome,
          result, thrown, calls, checks, fallbackRuns, permThrows,
          decodeThrows, classMap, registered, mappings, parsed, decodeSaw,
          globalLogLevel, logs, faults, levelCalls, connected, socket, connects,
          inflight, closing, poolEnded, mwpc, req, res, nextCalls>>

\* state of the process outside the client under validation
others == <<levelCalls, mwpc, req, res, nextCalls>>

registry == <<classMap, registered, mappings, parsed>>

redisClient == <<connected, socket, connects, inflight, closing, poolEnded>>

world == <<config, sessionsTable, redisKeys, usersTable, userRoles,
           permissionTables>>

----------------------------------------------------------------------------
(* JavaScript values, tagged so that values of different types compare     *)
(* unequal (=== semantics) instead of being incomparable.                  *)

Undef == [t |-> "undefined"]
Null == [t |-> "null"]
Str(s) == [t |-> "string", s |-> s]
Num(n) == [t |-> "number", n |-> n]
Bool(b) == [t |-> "boolean", b |-> b]
Obj(o) == [t |-> "object", o |-> o]
Arr(a) == [t |-> "array", a |-> a]

\* JavaScript truthiness, as used by `!x`, `x || y` and `if (x)`.
Truthy(v) ==
    CASE v.t = "undefined" -> FALSE
      [] v.t = "null" -> FALSE
      [] v.t = "string" -> v.s # ""
      [] v.t = "number" -> v.n # 0
      [] v.t = "boolean" -> v.b
      [] v.t = "chars" -> v.c # <<>>
      [] OTHER -> TRUE

\* a || b
OrElse(a, b) == IF Truthy(a) THEN a ELSE b

\* value?.key on an object value
Prop(v, key) ==
    IF v.t = "object" /\ key \in DOMAIN v.o THEN v.o[key] ELSE Undef

\* a string held as its sequence of characters
Chars(c) == [t |-> "chars", c |-> c]

NoRow == [t |-> "norow"]
\* a thrown Error; msg is the chain of messages, outermost first
Throw(msg) == [t |-> "throw", msg |-> <<msg>>]
IsThrow(v) == v.t = "throw"

\* throw new Error(`${prefix}: ${error.message}`)
Wrap(prefix, e) == [t |-> "throw", msg |-> <<prefix>> \o e.msg]

\* the pool's query (or the key-value client's command) rejects
QueryFailed == Throw("query failed")

----------------------------------------------------------------------------
(* Bounds and the finite input sets the store contents are drawn from.     *)

SessionIds == {"s1", "s2"}
\* cookie values that are not envelopes: empty, or a bare session id
PlainCookies == {"", "s1", "s2"}

\* cookie values that are base64 JSON envelopes {iv, value, mac}
EnvelopeCookies ==
    { "env-id", "env-pipe", "env-pipe2", "env-tail", "env-empty", "env-ser",
      "env-serpipe", "env-garbled", "env-forged", "env-swapiv" }

\* the cookie values presented to a client: without an appKey every
\* envelope is an opaque string, so one of them stands for all
CookiesFor(cfg) ==
    IF cfg.appKey = Undef THEN PlainCookies \cup { "env-id" }
    ELSE PlainCookies \cup EnvelopeCookies
UserIds == {1}
Drivers == {"database", "redis", "custom"}

\* the clock (epoch seconds) during the validations modelled
Now == 100000
DefaultLifetime == 1000

\* configured session.lifetime values, in minutes: 0..MaxLifetime, or unset
MaxLifetime == 1

\* A decoded session is an ordered map: a sequence of key/value entries.
Entry(k, v) == <<[k |-> k, v |-> v]>>
Opt(present, entries) == IF present THEN entries ELSE <<>>

PermissionValues ==
    { Undef, Num(0),
      Obj([role |-> Str("Shooter")]),
      Obj([role |-> Str("Admin")]) }

TwoFaValues == { Undef, Str("true"), Bool(TRUE) }

\* the auth entry: absent, user 1, or a user id with no users row
LoginValues == { Undef, Num(1), Num(2) }

MkPayload(login, twofa, perms) ==
    [ kind |-> "map",
      entries |->
          Opt(login # Undef, Entry("login_web_59ba", login))
          \o Entry("_token", Str("tok123"))
          \o Opt(twofa # Undef, Entry("2faVerify", twofa))
          \o Opt(perms # Undef, Entry("permissions", perms)) ]

\* text that php-serialize rejects (truncated, bad length, unknown class)
MalformedPayload == [ kind |-> "malformed", entries |-> <<>> ]

\* the serialized null "N;": parses, but to a falsy value
NullPayload == [ kind |-> "null", entries |-> <<>> ]

Payloads ==
    { MalformedPayload, NullPayload } \cup
    { MkPayload(l, f, p) : l \in LoginValues, f \in TwoFaValues,
                           p \in PermissionValues }

----------------------------------------------------------------------------
(* SessionDecoder                                                          *)

OMap(entries) == [t |-> "map", e |-> entries]

\* typeof v === 'object' (null excluded by the callers' truthiness test)
IsObjectLike(v) == v.t \in {"object", "array", "map", "instance"}

\* key in value
HasKey(v, key) ==
    CASE v.t = "map" -> \E i \in 1..Len(v.e) : v.e[i].k = key
      [] v.t \in {"object", "instance"} -> key \in DOMAIN v.o
      [] OTHER -> FALSE

\* value[key]
Get(v, key) ==
    CASE v.t = "map" ->
            IF \E i \in 1..Len(v.e) : v.e[i].k = key
            THEN v.e[CHOOSE i \in 1..Len(v.e) : v.e[i].k = key].v
            ELSE Undef
      [] v.t = "object" -> Prop(v, key)
      [] v.t = "instance" -> IF key \in DOMAIN v.o THEN v.o[key] ELSE Undef
      [] OTHER -> Undef

----------------------------------------------------------------------------
(* PhpSerializer and its class registry.  A registry maps PHP class names  *)
(* to JavaScript classes; classes are represented by their names.          *)

BuiltIns ==
    [ n \in { "stdClass", "Illuminate\\Support\\Collection",
              "Illuminate\\Database\\Eloquent\\Collection", "Carbon\\Carbon",
              "Carbon\\CarbonImmutable", "Illuminate\\Support\\MessageBag",
              "Illuminate\\Support\\ViewErrorBag",
              "Illuminate\\Database\\Eloquent\\Model" } |->
        CASE n = "stdClass" -> "stdClass"
          [] n \in { "Illuminate\\Support\\Collection",
                     "Illuminate\\Database\\Eloquent\\Collection" } -> "Collection"
          [] n \in { "Carbon\\Carbon", "Carbon\\CarbonImmutable" } -> "Carbon"
          [] n = "Illuminate\\Support\\MessageBag" -> "MessageBag"
          [] n = "Illuminate\\Support\\ViewErrorBag" -> "ViewErrorBag"
          [] OTHER -> "Model" ]

\* a serialized object O:n:"class":k:{...}, and the object built from it
Instance(class, o) == [t |-> "instance", class |-> class, o |-> o]

\* mutant: the registration replaces the registry
addClassMapping_Replace(map, className, jsClass) ==
    [ n \in { className } |-> jsClass ]

\* classMap[className] = jsClass
addClassMapping(map, className, jsClass) ==
    [ n \in DOMAIN map \cup { className } |->
        IF n = className THEN jsClass ELSE map[n] ]

\* mutant: the registry object itself is handed out
getClassMappings_Reference(map) == [ shared |-> TRUE, map |-> map, held |-> TRUE ]

\* return { ...classMap }: a fresh object with the same entries
getClassMappings(map) == [ shared |-> FALSE, map |-> map, held |-> TRUE ]

\* positions of the serialized objects whose class the scope lacks
UnknownClasses(entries, scope) ==
    { i \in 1..Len(entries) :
        /\ entries[i].v.t = "instance"
        /\ entries[i].v.class \notin DOMAIN scope }

\* the parsed entries: each serialized object built with its mapped class
Construct(entries, scope) ==
    [ i \in 1..Len(entries) |->
        IF entries[i].v.t = "instance" /\ entries[i].v.class \in DOMAIN scope
        THEN [ k |-> entries[i].k,
               v |-> Instance(scope[entries[i].v.class], entries[i].v.o) ]
        ELSE entries[i] ]

\* mutant: a class missing from the scope yields an incomplete object
PhpUnserialize_NonStrict(data, scope) ==
    CASE data.kind = "malformed" -> Throw("Syntax error")
      [] data.kind = "null" -> Null
      [] OTHER -> OMap(Construct(data.entries, scope))

\* phpSerialize.unserialize(data, scope), which is strict by default: a
\* class missing from the scope is an error
PhpUnserialize(data, scope) ==
    LET unknown == UnknownClasses(data.entries, scope)
    IN  CASE data.kind = "malformed" -> Throw("Syntax error")
          [] data.kind = "null" -> Null
          [] OTHER ->
                IF unknown # {}
                THEN Throw("Class "
                           \o data.entries[CHOOSE i \in unknown :
                                             \A j \in unknown : i <= j].v.class
                           \o " not found in given scope")
                ELSE OMap(Construct(data.entries, scope))

\* mutant: only the built-in classes are offered to the parser
ScopePassed_BuiltIns(map) == BuiltIns

\* the scope argument of phpSerialize.unserialize: the registry itself
ScopePassed(map) == map

\* PhpSerializer.unserialize
unserialize(data) ==
    LET r == PhpUnserialize(data, ScopePassed(classMap))
    IN  IF IsThrow(r) THEN Wrap("PHP unserialization failed", r) ELSE r

\* decode: base64-decode, then PhpSerializer.unserialize; any failure is
\* rethrown as 'Session decode failed: ...'
decode(payload) ==
    LET r == unserialize(payload)
    IN  IF IsThrow(r) THEN Wrap("Session decode failed", r) ELSE r

\* key.startsWith('login_web_')
StartsWithLoginWeb(k) == k \in {"login_web_59ba", "login_web_0c1d"}

\* mutant: a session without an auth key is taken to belong to user 1
getUserId_Default(d) ==
    LET hits == { i \in 1..Len(d.e) : StartsWithLoginWeb(d.e[i].k) }
    IN  IF hits = {} THEN Num(1)
        ELSE d.e[CHOOSE i \in hits : \A j \in hits : i <= j].v

\* mutant: the last matching key in insertion order is taken
getUserId_Last(d) ==
    LET hits == { i \in 1..Len(d.e) : StartsWithLoginWeb(d.e[i].k) }
    IN  IF hits = {} THEN Null
        ELSE d.e[CHOOSE i \in hits : \A j \in hits : j <= i].v

getUserId(d) ==
    LET hits == { i \in 1..Len(d.e) : StartsWithLoginWeb(d.e[i].k) }
    IN  IF hits = {} THEN Null
        ELSE d.e[CHOOSE i \in hits : \A j \in hits : i <= j].v

getCsrfToken(d) == OrElse(Get(d, "_token"), Null)

\* mutant: any truthy '2faVerify' entry counts as verified
is2FAVerified_Truthy(d) == Truthy(Get(d, "2faVerify"))

is2FAVerified(d) == Get(d, "2faVerify") = Str("true")

\* the loop of getNestedValue left by `return null`
NotFound == [t |-> "notfound"]

\* mutant: `key in value` without the truthiness and typeof guards; the
\* `in` operator throws a TypeError on a value that is not an object
Descend_Unguarded(value, key) ==
    IF ~IsObjectLike(value)
    THEN Throw("TypeError: Cannot use 'in' operator")
    ELSE IF HasKey(value, key) THEN Get(value, key) ELSE NotFound

\* one iteration of getNestedValue's loop:
\* if (value && typeof value === 'object' && key in value) value = value[key]
\* else return null
Descend(value, key) ==
    IF Truthy(value) /\ IsObjectLike(value) /\ HasKey(value, key)
    THEN Get(value, key)
    ELSE NotFound

RECURSIVE getNestedValue(_, _)
\* path: the segments of the configured key, path.split('.')
getNestedValue(value, path) ==
    IF path = <<>> THEN value
    ELSE LET next == Descend(value, Head(path))
         IN  IF IsThrow(next) THEN next
             ELSE IF next = NotFound THEN Null
             ELSE getNestedValue(next, Tail(path))

\* the configured path as written (segments joined with '.')
PathName(path) ==
    CASE path = <<"permissions">> -> "permissions"
      [] path = <<"role">> -> "role"
      [] path = <<"competitionIds">> -> "competitionIds"
      [] path = <<"user", "permissions">> -> "user.permissions"
      [] path = <<"auth", "permissions">> -> "auth.permissions"
      [] path = <<"user", "permissions", "role">> -> "user.permissions.role"
      [] path = <<"modules">> -> "modules"
      [] OTHER -> "other"

permissionKeys ==
    << "permissions", "user_permissions", "auth_permissions",
       "laravel_permissions", "role_permissions", "access_permissions" >>

\* mutant: the nested locations are probed before the conventional keys
CommonPermissions_NestedFirst(d) ==
    LET hits == { i \in 1..Len(permissionKeys) : Truthy(Get(d, permissionKeys[i])) }
        u == Get(d, "user")
        a == Get(d, "auth")
    IN  IF Truthy(u) /\ IsObjectLike(u) /\ Truthy(Get(u, "permissions"))
        THEN Get(u, "permissions")
        ELSE IF Truthy(a) /\ IsObjectLike(a) /\ Truthy(Get(a, "permissions"))
        THEN Get(a, "permissions")
        ELSE IF hits # {}
        THEN Get(d, permissionKeys[CHOOSE i \in hits : \A j \in hits : i <= j])
        ELSE Null

\* the probe of the conventional keys, then user.permissions, auth.permissions
CommonPermissions(d) ==
    LET hits == { i \in 1..Len(permissionKeys) : Truthy(Get(d, permissionKeys[i])) }
        u == Get(d, "user")
        a == Get(d, "auth")
    IN  IF hits # {}
        THEN Get(d, permissionKeys[CHOOSE i \in hits : \A j \in hits : i <= j])
        ELSE IF Truthy(u) /\ IsObjectLike(u) /\ Truthy(Get(u, "permissions"))
        THEN Get(u, "permissions")
        ELSE IF Truthy(a) /\ IsObjectLike(a) /\ Truthy(Get(a, "permissions"))
        THEN Get(a, "permissions")
        ELSE Null

\* result[key] = value for every configured path that was found
FoundMap(d, keys, found) ==
    Obj([ n \in { PathName(keys[i]) : i \in found } |->
          getNestedValue(d,
            keys[CHOOSE i \in found :
                   /\ PathName(keys[i]) = n
                   /\ \A j \in found : PathName(keys[j]) = n => j <= i]) ])

\* mutant: the map from path to value is returned for a single path too
ConfiguredResult_AlwaysMap(d, keys, found) == FoundMap(d, keys, found)

\* if (keys.length === 1 && result[keys[0]] !== undefined) return
\* result[keys[0]]; return result
ConfiguredResult(d, keys, found) ==
    IF Len(keys) = 1 THEN getNestedValue(d, keys[1])
    ELSE FoundMap(d, keys, found)

\* keys: the configured paths (<<>> when permissionsKey is unset)
getPermissions(d, keys) ==
    LET found == { i \in 1..Len(keys) :
                     getNestedValue(d, keys[i]) \notin {Undef, Null} }
        raised == { i \in 1..Len(keys) : IsThrow(getNestedValue(d, keys[i])) }
    IN  IF raised # {}
        THEN getNestedValue(d, keys[CHOOSE i \in raised : \A j \in raised : i <= j])
        ELSE IF found # {} THEN ConfiguredResult(d, keys, found)
        ELSE CommonPermissions(d)

----------------------------------------------------------------------------
(* SessionDecoder.decrypt.  Texts that are taken apart (the decrypted       *)
(* cookie value) are sequences of one-character strings.                   *)

RECURSIVE Text(_)
\* the string spelled by a sequence of characters
Text(c) == IF c = <<>> THEN "" ELSE Head(c) \o Text(Tail(c))

\* text.includes(ch)
includes(c, ch) == \E i \in 1..Len(c) : c[i] = ch

RECURSIVE split(_, _)
\* text.split(ch): the segments between the occurrences of ch
split(c, ch) ==
    IF ~includes(c, ch) THEN << c >>
    ELSE LET i == CHOOSE k \in 1..Len(c) :
                    c[k] = ch /\ \A j \in 1..(k - 1) : c[j] # ch
         IN  << SubSeq(c, 1, i - 1) >> \o split(SubSeq(c, i + 1, Len(c)), ch)

\* text.startsWith('s:')
StartsWithSerializedString(c) == Len(c) >= 2 /\ c[1] = "s" /\ c[2] = ":"

Digits == { "0", "1", "2", "3", "4", "5", "6", "7", "8", "9" }

\* the positions <<i, j, k>> at which /s:\d+:"(.*)";/ can match:
\* 's:' at i, digits up to j - 1, ':"' at j, '";' at k
SerializedStringMatches(c) ==
    { m \in (1..Len(c)) \X (1..Len(c)) \X (1..Len(c)) :
        /\ m[1] + 2 < m[2] /\ m[2] + 2 <= m[3] /\ m[3] + 1 <= Len(c)
        /\ c[m[1]] = "s" /\ c[m[1] + 1] = ":"
        /\ \A d \in (m[1] + 2)..(m[2] - 1) : c[d] \in Digits
        /\ c[m[2]] = ":" /\ c[m[2] + 1] = "\""
        /\ c[m[3]] = "\"" /\ c[m[3] + 1] = ";" }

\* result.match(/s:\d+:"(.*)";/): leftmost start, greedy capture; the
\* capture group, or Null when the pattern does not match
MatchSerializedString(c) ==
    LET ms == SerializedStringMatches(c)
        m == CHOOSE x \in ms :
               \A y \in ms : x[1] < y[1] \/ (x[1] = y[1] /\ x[3] >= y[3])
    IN  IF ms = {} THEN Null ELSE Chars(SubSeq(c, m[2] + 2, m[3] - 1))

\* the key buffer the constructor derives from config.appKey
KeyOf(appKey) ==
    CASE appKey = Str("base64:k1") -> "k1"
      [] appKey = Str("k1") -> "k1"
      [] OTHER -> "k?"

\* createHmac('sha256', key).update(text).digest('hex')
Hmac(key, text) == << "hmac", key, text >>

\* an envelope as Laravel's encrypter with the given key writes it
Seal(key, iv, value) ==
    [ iv |-> iv, value |-> value, mac |-> Hmac(key, iv \o value) ]

\* JSON.parse(Buffer.from(cookie, 'base64').toString()) for the cookie
\* values modelled; Null stands for a value that is not base64 JSON
ParseEnvelope(received) ==
    CASE received = "env-id" -> Seal("k1", "iv1", "ct-id")
      [] received = "env-pipe" -> Seal("k1", "iv1", "ct-pipe")
      [] received = "env-pipe2" -> Seal("k1", "iv1", "ct-pipe2")
      [] received = "env-tail" -> Seal("k1", "iv1", "ct-tail")
      [] received = "env-empty" -> Seal("k1", "iv1", "ct-empty")
      [] received = "env-ser" -> Seal("k1", "iv1", "ct-ser")
      [] received = "env-serpipe" -> Seal("k1", "iv1", "ct-serpipe")
      [] received = "env-garbled" -> Seal("k1", "iv1", "ct-garbled")
      [] received = "env-forged" ->
            [ iv |-> "iv1", value |-> "ct-id",
              mac |-> Hmac("k2", "iv1" \o "ct-id") ]
      [] received = "env-swapiv" ->
            [ iv |-> "iv2", value |-> "ct-id",
              mac |-> Hmac("k1", "iv1" \o "ct-id") ]
      [] OTHER -> Null

\* the plaintext each ciphertext holds (all encrypted with k1 and iv1)
PlainOf(value) ==
    CASE value = "ct-id" -> << "s", "1" >>
      [] value = "ct-pipe" -> << "h", "|", "s", "1" >>
      [] value = "ct-pipe2" -> << "h", "|", "s", "1", "|", "x" >>
      [] value = "ct-tail" -> << "h", "|" >>
      [] value = "ct-empty" -> << >>
      [] value = "ct-ser" -> << "s", ":", "2", ":", "\"", "s", "1", "\"", ";" >>
      [] value = "ct-serpipe" ->
            << "s", ":", "4", ":", "\"", "h", "|", "s", "1", "\"", ";" >>
      [] OTHER -> << "?" >>

\* createDecipheriv('aes-256-cbc', key, iv), update, final: the plaintext,
\* garbage under another key or iv, or a padding error
Decipher(key, iv, value) ==
    IF value = "ct-garbled" THEN Throw("bad decrypt")
    ELSE IF key = "k1" /\ iv = "iv1" THEN Chars(PlainOf(value))
    ELSE Chars(<< "?" >>)

\* mutant: the block decryption runs before the tag is compared
decryptSteps_DecipherFirst(key, received) ==
    LET payload == ParseEnvelope(received)
        calculatedMac == Hmac(key, payload.iv \o payload.value)
        plain == Decipher(key, payload.iv, payload.value)
        match == MatchSerializedString(plain.c)
    IN  IF payload = Null
        THEN [ out |-> Wrap("Decryption failed", Throw("Unexpected token")),
               deciphered |-> FALSE ]
        ELSE IF IsThrow(plain)
        THEN [ out |-> Wrap("Decryption failed", plain), deciphered |-> TRUE ]
        ELSE IF calculatedMac # payload.mac
        THEN [ out |-> Wrap("Decryption failed",
                            Throw("MAC verification failed - calculated MAC does not match")),
               deciphered |-> TRUE ]
        ELSE IF StartsWithSerializedString(plain.c) /\ Truthy(match)
        THEN [ out |-> match, deciphered |-> TRUE ]
        ELSE [ out |-> plain, deciphered |-> TRUE ]

\* decrypt's try block: parse, recompute and compare the tag, decipher,
\* unwrap a serialized string.  out is the value returned or the error
\* thrown; deciphered says whether the block decryption ran
decryptSteps(key, received) ==
    LET payload == ParseEnvelope(received)
        calculatedMac == Hmac(key, payload.iv \o payload.value)
        plain == Decipher(key, payload.iv, payload.value)
        match == MatchSerializedString(plain.c)
    IN  IF payload = Null
        THEN [ out |-> Wrap("Decryption failed", Throw("Unexpected token")),
               deciphered |-> FALSE ]
        ELSE IF calculatedMac # payload.mac
        THEN [ out |-> Wrap("Decryption failed",
                            Throw("MAC verification failed - calculated MAC does not match")),
               deciphered |-> FALSE ]
        ELSE IF IsThrow(plain)
        THEN [ out |-> Wrap("Decryption failed", plain), deciphered |-> TRUE ]
        ELSE IF StartsWithSerializedString(plain.c) /\ Truthy(match)
        THEN [ out |-> match, deciphered |-> TRUE ]
        ELSE [ out |-> plain, deciphered |-> TRUE ]

decrypt(key, received) == decryptSteps(key, received).out

----------------------------------------------------------------------------
(* Configuration                                                           *)

\* this.sessionLifetime = config.session.lifetime || 1000
SessionLifetime(cfg) == OrElse(cfg.lifetime, Num(DefaultLifetime)).n

----------------------------------------------------------------------------
(* DatabaseStore.  `fail` says whether the pool's query rejects.           *)

\* mutant: the lookup refreshes the last_activity of the row it reads
SessionsAfterSelect_Touch(table, id) ==
    IF id \in DOMAIN table /\ table[id] # NoRow
    THEN [ table EXCEPT ![id].last_activity = Now ]
    ELSE table

\* the sessions table after getSession's statements (two SELECTs): a read
\* leaves every row as it was
SessionsAfterSelect(table, id) == table

\* mutant: the diagnostic count query runs in the outer try block
DbGetSession_CountUncaught(table, id, fail, countFails) ==
    IF fail THEN Wrap("Failed to get session", QueryFailed)
    ELSE IF id \in DOMAIN table /\ table[id] # NoRow
         THEN [ t |-> "session",
                id |-> id,
                user_id |-> table[id].user_id,
                payload |-> table[id].payload,
                last_activity |-> table[id].last_activity ]
         ELSE IF countFails THEN Wrap("Failed to get session", QueryFailed)
         ELSE Null

\* SELECT * FROM sessions WHERE id = ? LIMIT 1 (fail: the query rejects);
\* with no row, SELECT COUNT(*) runs in its own try block (countFails: it
\* rejects, which the inner catch only logs) and null is returned
DbGetSession(table, id, fail, countFails) ==
    IF fail THEN Wrap("Failed to get session", QueryFailed)
    ELSE IF id \in DOMAIN table /\ table[id] # NoRow
         THEN [ t |-> "session",
                id |-> id,
                user_id |-> table[id].user_id,
                payload |-> table[id].payload,
                last_activity |-> table[id].last_activity ]
         ELSE Null

\* mutant: the lookup without the deleted_at filter
DbGetUser_IncludingDeleted(users, uid, fail) ==
    IF fail THEN Wrap("Failed to get user", QueryFailed)
    ELSE IF uid \in DOMAIN users /\ users[uid] # NoRow
         THEN [ t |-> "user",
                id |-> uid,
                google2fa_enable |-> users[uid].google2fa_enable,
                session_id |-> Undef ]
         ELSE Null

\* SELECT id, email, name..., google2fa_enable, created_at, updated_at
\* FROM users WHERE id = ? AND deleted_at IS NULL LIMIT 1
DbGetUser(users, uid, fail) ==
    IF fail THEN Wrap("Failed to get user", QueryFailed)
    ELSE IF uid \in DOMAIN users /\ users[uid] # NoRow /\ ~users[uid].deleted
         THEN [ t |-> "user",
                id |-> uid,
                google2fa_enable |-> users[uid].google2fa_enable,
                session_id |-> Undef ]
         ELSE Null

\* the rows of `left` joined with the rows of `right`, as pairs
CrossJoin(left, right) ==
    [ k \in 1..(Len(left) * Len(right)) |->
        << left[((k - 1) \div Len(right)) + 1], right[((k - 1) % Len(right)) + 1] >> ]

\* mutant: SELECT without DISTINCT
Distinct_All(rows) == rows

\* SELECT DISTINCT: each row once (its first occurrence)
Distinct(rows) ==
    LET First(i) == \A j \in 1..(i - 1) : rows[j] # rows[i]
        kept == SelectSeq([ i \in 1..Len(rows) |-> i ], First)
    IN  [ k \in 1..Len(kept) |-> rows[kept[k]] ]

\* row.deleted_at IS NULL for the row with this id, joined on its id
Live(table, id) == id \in DOMAIN table /\ ~table[id].deleted

\* SELECT DISTINCT m.id, m.module_name as name, m.url
\* FROM module_permissions mp JOIN modules m ON m.id = mp.module_id
\* JOIN user_roles ur ON ur.role_id = mp.role_id
\* WHERE ur.user_id = ? AND m.deleted_at IS NULL AND mp.deleted_at IS NULL
SelectModules(roleArr, tables) ==
    LET joined == CrossJoin(tables.module_permissions, roleArr)
        Kept(pair) == /\ pair[1].role = pair[2]
                      /\ Live(tables.modules, pair[1].module_id)
                      /\ ~pair[1].deleted
        kept == SelectSeq(joined, Kept)
    IN  Distinct([ k \in 1..Len(kept) |->
                     [ id |-> kept[k][1].module_id,
                       name |-> tables.modules[kept[k][1].module_id].module_name,
                       url |-> tables.modules[kept[k][1].module_id].url ] ])

\* SELECT DISTINCT l.id, l.link_name as name, l.permission_module_id, l.url
\* FROM link_permissions lp JOIN links l ON l.id = lp.link_id
\* JOIN user_roles ur ON ur.role_id = lp.role_id
\* WHERE ur.user_id = ? AND l.deleted_at IS NULL AND lp.deleted_at IS NULL
SelectLinks(roleArr, tables) ==
    LET joined == CrossJoin(tables.link_permissions, roleArr)
        Kept(pair) == /\ pair[1].role = pair[2]
                      /\ Live(tables.links, pair[1].link_id)
                      /\ ~pair[1].deleted
        kept == SelectSeq(joined, Kept)
    IN  Distinct([ k \in 1..Len(kept) |->
                     [ id |-> kept[k][1].link_id,
                       name |-> tables.links[kept[k][1].link_id].link_name,
                       permission_module_id |->
                           tables.links[kept[k][1].link_id].permission_module_id,
                       url |-> tables.links[kept[k][1].link_id].url ] ])

\* the three join queries of the fallback path.  roles[uid] is the result
\* of the first (user_roles JOIN roles, the role names in row order); a
\* role's name stands for its id in the two permission joins
getAllPermissionsFromDatabase(roles, tables, uid) ==
    LET roleArr == IF uid \in DOMAIN roles THEN roles[uid] ELSE <<>>
    IN  Obj([ role |-> IF Len(roleArr) > 0 THEN Str(roleArr[1]) ELSE Null,
              role_arr |-> Arr(roleArr),
              modules |-> Arr(SelectModules(roleArr, tables)),
              links |-> Arr(SelectLinks(roleArr, tables)) ])

\* mutant: ORDER BY last_activity ASC
MostRecentSession_Oldest(table, uid) ==
    LET ids == { i \in DOMAIN table : table[i] # NoRow /\ table[i].user_id = uid }
    IN  IF ids = {} THEN NoRow
        ELSE table[CHOOSE i \in ids :
                     \A j \in ids : table[j].last_activity >= table[i].last_activity]

\* SELECT payload, last_activity FROM sessions WHERE user_id = ?
\* ORDER BY last_activity DESC LIMIT 1
MostRecentSession(table, uid) ==
    LET ids == { i \in DOMAIN table : table[i] # NoRow /\ table[i].user_id = uid }
    IN  IF ids = {} THEN NoRow
        ELSE table[CHOOSE i \in ids :
                     \A j \in ids : table[j].last_activity <= table[i].last_activity]

\* TRUE when decoder.decode throws inside getUserPermissions
DbDecodeThrows(table, uid, fail) ==
    LET row == MostRecentSession(table, uid)
    IN  /\ ~fail
        /\ row # NoRow
        /\ IsThrow(decode(row.payload))

\* TRUE when getUserPermissions reaches getAllPermissionsFromDatabase
DbUsesFallback(table, keys, uid, fail) ==
    LET row == MostRecentSession(table, uid)
        data == IF row = NoRow THEN Null ELSE decode(row.payload)
    IN  /\ ~fail
        /\ row # NoRow
        /\ ~IsThrow(data)
        /\ Truthy(data)
        /\ ~Truthy(getPermissions(data, keys))

DbGetUserPermissions(table, roles, tables, keys, uid, fail) ==
    LET row == MostRecentSession(table, uid)
        data == IF row = NoRow THEN Null ELSE decode(row.payload)
    IN  IF fail THEN Wrap("Failed to get user permissions", QueryFailed)
        ELSE IF row = NoRow THEN Null
        ELSE IF IsThrow(data) THEN Wrap("Failed to get user permissions", data)
        ELSE IF ~Truthy(data) THEN Null
        ELSE IF IsThrow(getPermissions(data, keys))
             THEN Wrap("Failed to get user permissions", getPermissions(data, keys))
        ELSE IF Truthy(getPermissions(data, keys))
             THEN getPermissions(data, keys)
             ELSE getAllPermissionsFromDatabase(roles, tables, uid)

\* mutant: the role is also looked for below the 'permissions' entry
DbGetUserRole_Deep(table, roles, tables, keys, uid, fail) ==
    LET permissions == DbGetUserPermissions(table, roles, tables, keys, uid, fail)
    IN  IF IsThrow(permissions) THEN Wrap("Failed to get user role", permissions)
        ELSE OrElse(Get(permissions, "role"),
                    OrElse(Get(Get(permissions, "permissions"), "role"), Null))

\* permissions?.role || null
DbGetUserRole(table, roles, tables, keys, uid, fail) ==
    LET permissions == DbGetUserPermissions(table, roles, tables, keys, uid, fail)
    IN  IF IsThrow(permissions) THEN Wrap("Failed to get user role", permissions)
        ELSE OrElse(Get(permissions, "role"), Null)

----------------------------------------------------------------------------
(* RedisStore                                                              *)

\* client.get(prefix + sessionId); last_activity is the time of the lookup
RedisGetSession(keys, id, fail) ==
    IF fail THEN Wrap("Failed to get session from Redis", QueryFailed)
    ELSE IF id \in DOMAIN keys /\ keys[id] # NoRow
         THEN [ t |-> "session",
                id |-> id,
                user_id |-> 0,
                payload |-> keys[id].payload,
                last_activity |-> Now ]
         ELSE Null

----------------------------------------------------------------------------
(* The answers of whichever store the validator was constructed with.      *)
(* driver "custom" is any other StoreInterface implementation: it hands    *)
(* back the stored rows with every column, and `ans` is its answer to the  *)
(* role and permission lookups.                                            *)

CustomGetUser(users, uid, fail) ==
    IF fail THEN QueryFailed
    ELSE IF uid \in DOMAIN users /\ users[uid] # NoRow /\ ~users[uid].deleted
         THEN [ t |-> "user",
                id |-> uid,
                google2fa_enable |-> users[uid].google2fa_enable,
                session_id |-> users[uid].session_id ]
         ELSE Null

StoreGetSession(id, fail, countFails) ==
    CASE config.driver = "redis" -> RedisGetSession(redisKeys, id, fail)
      [] config.driver = "custom" ->
            IF fail THEN QueryFailed
            ELSE DbGetSession(sessionsTable, id, FALSE, FALSE)
      [] OTHER -> DbGetSession(sessionsTable, id, fail, countFails)

\* DatabaseStore.getSession issues the count query: the lookup resolved
\* with no row
CountQueryRuns(id, fail) ==
    /\ config.driver = "database"
    /\ ~fail
    /\ ~(id \in DOMAIN sessionsTable /\ sessionsTable[id] # NoRow)

\* store.getSession has not been called in this validation
NoFaults == [ ran |-> FALSE, lookup |-> FALSE, count |-> FALSE ]

StoreGetUser(uid, fail) ==
    IF config.driver = "custom"
    THEN CustomGetUser(usersTable, uid, fail)
    ELSE DbGetUser(usersTable, uid, fail)

StoreGetUserRole(uid, fail, ans) ==
    IF config.driver = "custom"
    THEN (IF fail THEN QueryFailed ELSE ans)
    ELSE DbGetUserRole(sessionsTable, userRoles, permissionTables,
                       config.permissionsKey, uid, fail)

StoreGetUserPermissions(uid, fail, ans) ==
    IF config.driver = "custom"
    THEN (IF fail THEN QueryFailed ELSE ans)
    ELSE DbGetUserPermissions(sessionsTable, userRoles, permissionTables,
                              config.permissionsKey, uid, fail)

StoreUsesFallback(uid, fail) ==
    /\ config.driver # "custom"
    /\ DbUsesFallback(sessionsTable, config.permissionsKey, uid, fail)

\* TRUE when the store's own decoder decodes the user's session row
StoreDecodes(uid, fail) ==
    /\ config.driver # "custom"
    /\ ~fail
    /\ MostRecentSession(sessionsTable, uid) # NoRow

StoreDecodeThrows(uid, fail) ==
    /\ config.driver # "custom"
    /\ DbDecodeThrows(sessionsTable, uid, fail)

----------------------------------------------------------------------------
(* SessionValidationResult                                                 *)

\* mutant: rejections never carry a reason tag
Invalid_Untagged(error, reason) ==
    [ valid |-> FALSE, error |-> Str(error), reason |-> Undef,
      user |-> Undef, role |-> Undef, permissions |-> Undef,
      sessionId |-> Undef, csrfToken |-> Undef ]

Invalid(error, reason) ==
    [ valid |-> FALSE, error |-> Str(error), reason |-> reason,
      user |-> Undef, role |-> Undef, permissions |-> Undef,
      sessionId |-> Undef, csrfToken |-> Undef ]

\* mutant: the result reports the cookie value as received
Valid_RawCookie(u, r, permissions, sid, d) ==
    [ valid |-> TRUE, error |-> Undef, reason |-> Undef,
      user |-> u, role |-> OrElse(r, Undef), permissions |-> permissions,
      sessionId |-> Str(cookie), csrfToken |-> OrElse(getCsrfToken(d), Undef) ]

Valid(u, r, permissions, sid, d) ==
    [ valid |-> TRUE, error |-> Undef, reason |-> Undef,
      user |-> u, role |-> OrElse(r, Undef), permissions |-> permissions,
      sessionId |-> Str(sid), csrfToken |-> OrElse(getCsrfToken(d), Undef) ]

NoResult == [ valid |-> FALSE, error |-> Undef, reason |-> Undef,
              user |-> Undef, role |-> Undef, permissions |-> Undef,
              sessionId |-> Undef, csrfToken |-> Undef ]

\* validate returns answer after evaluating the gates in newChecks
Returns(answer, newChecks) ==
    /\ pc' = "done"
    /\ outcome' = "returned"
    /\ result' = answer
    /\ thrown' = <<>>
    /\ checks' = checks \o newChecks

\* validate rejects: a store call threw outside any try block
Throws(msg, newChecks) ==
    /\ pc' = "done"
    /\ outcome' = "threw"
    /\ result' = NoResult
    /\ thrown' = msg
    /\ checks' = checks \o newChecks

\* validate suspends at the store call `method`
Awaits(method, newChecks) ==
    /\ pc' = method
    /\ calls' = Append(calls, method)
    /\ checks' = checks \o newChecks
    /\ UNCHANGED <<outcome, result, thrown>>

----------------------------------------------------------------------------
(* LaravelSessionClient.validateSession                                    *)

\* mutant: a decryption failure is not caught and replaced by the cookie
SessionIdFrom_NoFallback(received, d) ==
    IF IsThrow(d) THEN ""
    ELSE IF ~Truthy(d) THEN received
    ELSE IF includes(d.c, "|") THEN Text(split(d.c, "|")[2])
    ELSE Text(d.c)

\* decryptedSessionId after the try block, d being what decrypt returned
\* or threw: the cookie value when decrypt threw or returned a falsy value,
\* else parts[1] of the split at '|', or the decrypted value itself
SessionIdFrom(received, d) ==
    IF IsThrow(d) \/ ~Truthy(d) THEN received
    ELSE IF includes(d.c, "|") THEN Text(split(d.c, "|")[2])
    ELSE Text(d.c)

\* getClassMappings has not been called
NoMappings == [ shared |-> FALSE, map |-> << >>, held |-> FALSE ]

\* PhpSerializer.unserialize has not been called directly
NotParsed == [ called |-> FALSE ]

----------------------------------------------------------------------------
(* SecurityUtils and the log calls that receive a session id, a decrypted  *)
(* cookie value or a session payload.  A log call reaches the console only *)
(* when the component's debug flag is set.                                 *)

\* globalLogLevel === 'secure'
shouldSanitize == globalLogLevel = "secure"

RECURSIVE Stars(_)
\* '*'.repeat(n)
Stars(n) == IF n = 0 THEN "" ELSE "*" \o Stars(n - 1)

\* sessionId.substring(0, 8), for the ids longer than eight characters
Substring8(id) ==
    CASE id = "env-pipe2" -> "env-pipe"
      [] id = "env-empty" -> "env-empt"
      [] id = "env-serpipe" -> "env-serp"
      [] id = "env-garbled" -> "env-garb"
      [] id = "env-forged" -> "env-forg"
      [] id = "env-swapiv" -> "env-swap"
      [] OTHER -> id

sanitizeSessionId(id) ==
    IF id = "" THEN "[REDACTED]"
    ELSE IF ~shouldSanitize THEN id
    ELSE IF Len(id) <= 8 THEN Stars(Len(id))
    ELSE Substring8(id) \o "..." \o Stars(16)

\* mutant: the log methods write whatever the debug flag is
Log_Always(by, on, kind, arg) ==
    IF on THEN { [ by |-> by, kind |-> kind, arg |-> arg ] } ELSE {}

\* this.log(..., arg) and this.logError(..., arg) of component `by`, when
\* `on` holds: if (this.debug) console.log / console.error
Log(by, on, kind, arg) ==
    IF config.debug /\ on THEN { [ by |-> by, kind |-> kind, arg |-> arg ] } ELSE {}

\* the log calls of SessionDecoder.decrypt that receive the plaintext
DecryptLogs(d) ==
    Log("SessionDecoder", ~IsThrow(d) /\ ~shouldSanitize, "decrypted", d)

\* the log calls of validateSession that receive the decrypted value, its
\* parts, or the session id
ClientLogs(d, sid) ==
    Log("LaravelSessionClient",
        Truthy(config.appKey) /\ ~IsThrow(d) /\ Truthy(d) /\ ~shouldSanitize,
        "decrypted", d)
    \cup Log("LaravelSessionClient",
             /\ Truthy(config.appKey) /\ ~IsThrow(d) /\ Truthy(d)
             /\ includes(d.c, "|") /\ ~shouldSanitize,
             "sessionId", sid)
    \cup Log("LaravelSessionClient", Truthy(config.appKey) /\ IsThrow(d),
             "error", "Session ID decryption failed")
    \cup Log("LaravelSessionClient", TRUE, "sessionId", sanitizeSessionId(sid))

\* validate: 'Validating session:'
ValidatorLogs(sid) ==
    Log("SessionValidator", sid # "", "sessionId", sanitizeSessionId(sid))

\* store.getSession: 'Session ID:' - DatabaseStore logs sessionId itself,
\* RedisStore logs sanitizeSessionId(sessionId)
StoreLogs(sid) ==
    Log("DatabaseStore", sid # "" /\ config.driver = "database", "sessionId", sid)
    \cup Log("RedisStore", sid # "" /\ config.driver = "redis",
             "sessionId", sanitizeSessionId(sid))

\* decode and validate step 4: 'Full session data:' in verbose mode
DecodeLogs(by, payload) ==
    Log(by, ~IsThrow(decode(payload)) /\ ~shouldSanitize, "payload", payload)

\* no request has reached the middleware
NoRequest == [ cookie |-> Undef, laravelSession |-> Undef ]

\* no concurrent call is in flight
NoCalls == [ c \in { 1, 2 } |-> [ pc |-> "idle", id |-> "", out |-> Undef ] ]

\* no decode has run in the current call
NoDecode == [ ran |-> FALSE, atStart |-> << >>, completed |-> << >>, scope |-> << >> ]

\* a decode runs now: the registrations completed so far and the scope
\* the parser is given
DecodeSees ==
    [ decodeSaw EXCEPT !.ran = TRUE, !.completed = registered,
                       !.scope = ScopePassed(classMap) ]

\* decoder.decrypt was not called (no appKey configured)
NotDecrypted == [t |-> "notcalled"]

(* validateSession up to the first store call: the cookie is decrypted     *)
(* when an appKey is configured, then validate step 1 runs on the session  *)
(* id obtained.                                                            *)
ValidateSession(received) ==
    LET steps == decryptSteps(KeyOf(config.appKey), received)
        d == IF Truthy(config.appKey) THEN steps.out ELSE NotDecrypted
        sid == IF Truthy(config.appKey) THEN SessionIdFrom(received, d)
               ELSE received
    IN  /\ pc = "idle"
        /\ cookie' = received
        /\ decrypted' = d
        /\ deciphers' = IF Truthy(config.appKey) /\ steps.deciphered THEN 1 ELSE 0
        /\ sessionId' = sid
        /\ session' = Null
        /\ sessionData' = Null
        /\ userId' = Null
        /\ extracted' = Undef
        /\ user' = Null
        /\ role' = Null
        /\ fallbackRuns' = 0
        /\ permThrows' = 0
        /\ decodeThrows' = 0
        /\ decodeSaw' = [ NoDecode EXCEPT !.atStart = registered ]
        /\ faults' = NoFaults
        /\ logs' = (IF Truthy(config.appKey) THEN DecryptLogs(d) ELSE {})
                    \cup ClientLogs(d, sid) \cup ValidatorLogs(sid)
                    \cup StoreLogs(sid)
        /\ IF sid = ""
           THEN /\ calls' = <<>>
                /\ pc' = "done"
                /\ outcome' = "returned"
                /\ result' = Invalid("No session ID provided", Undef)
                /\ thrown' = <<>>
                /\ checks' = <<"input">>
           ELSE /\ calls' = <<"getSession">>
                /\ pc' = "getSession"
                /\ outcome' = "none"
                /\ result' = NoResult
                /\ thrown' = <<>>
                /\ checks' = <<"input">>
        /\ UNCHANGED <<world, registry, redisClient, globalLogLevel, others>>

\* mutant: a session exactly at the limit is already expired
Expired_AtLimit(s) == Now - s.last_activity >= SessionLifetime(config) * 60

\* currentTime - lastActivity > lifetimeSeconds
Expired(s) == Now - s.last_activity > SessionLifetime(config) * 60

\* steps 3 to 5 on the session record s that the lookup produced
StepsThreeToFive(s) ==
    LET d == decode(s.payload)
        uid == getUserId(d)
    IN  /\ session' = s
        /\ decodeThrows' = decodeThrows + (IF ~Expired(s) /\ IsThrow(d) THEN 1 ELSE 0)
        /\ decodeSaw' = IF Expired(s) THEN decodeSaw ELSE DecodeSees
        /\ logs' = IF Expired(s) THEN logs
                    ELSE logs \cup DecodeLogs("SessionDecoder", s.payload)
                              \cup (IF Truthy(d)
                                    THEN DecodeLogs("SessionValidator", s.payload)
                                    ELSE {})
        /\ IF Expired(s)
           THEN /\ Returns(Invalid("Session expired", Undef),
                           <<"lookup", "expiry">>)
                /\ UNCHANGED <<sessionData, userId, calls>>
           ELSE IF IsThrow(d)
           THEN /\ Returns(Invalid("Failed to decode session", Undef),
                           <<"lookup", "expiry", "decode">>)
                /\ UNCHANGED <<sessionData, userId, calls>>
           ELSE IF ~Truthy(d)
           THEN /\ Returns(Invalid("Failed to decode session payload", Undef),
                           <<"lookup", "expiry", "decode">>)
                /\ UNCHANGED <<sessionData, userId, calls>>
           ELSE IF ~Truthy(uid)
           THEN /\ Returns(Invalid("User not authenticated", Undef),
                           <<"lookup", "expiry", "decode", "identity">>)
                /\ sessionData' = d
                /\ UNCHANGED <<userId, calls>>
           ELSE /\ Awaits("getUser", <<"lookup", "expiry", "decode", "identity">>)
                /\ sessionData' = d
                /\ userId' = uid

(* store.getSession resolves: step 2, then steps 3 to 5 up to              *)
(* store.getUser                                                           *)
GetSessionResolves ==
    /\ pc = "getSession"
    /\ \E fail \in BOOLEAN :
       \E countFails \in IF CountQueryRuns(sessionId, fail) THEN BOOLEAN ELSE { FALSE } :
         LET s == StoreGetSession(sessionId, fail, countFails)
         IN  /\ faults' = [ ran |-> TRUE, lookup |-> fail, count |-> countFails ]
             /\ IF IsThrow(s)
                THEN /\ Throws(s.msg, <<"lookup">>)
                     /\ logs' = logs \cup Log("DatabaseStore", config.driver = "database",
                                              "error", "Failed to get session")
                                     \cup Log("RedisStore", config.driver = "redis",
                                              "error", "Failed to get session from Redis")
                     /\ UNCHANGED <<session, sessionData, userId, calls, decodeThrows,
                                    decodeSaw>>
                ELSE IF ~Truthy(s)
                THEN /\ Returns(Invalid("Session not found", Undef), <<"lookup">>)
                     /\ logs' = logs \cup Log("DatabaseStore", countFails,
                                              "error", "Table error")
                     /\ UNCHANGED <<session, sessionData, userId, calls, decodeThrows,
                                    decodeSaw>>
                ELSE StepsThreeToFive(s)
    /\ sessionsTable' = IF config.driver = "redis" THEN sessionsTable
                        ELSE SessionsAfterSelect(sessionsTable, sessionId)
    /\ UNCHANGED <<config, redisKeys, usersTable, userRoles, permissionTables>>
    /\ UNCHANGED <<cookie, decrypted, deciphers, sessionId, extracted, user,
                   role, fallbackRuns, permThrows, registry, redisClient, globalLogLevel, others>>

(* store.getUser resolves: step 6, up to store.getUserRole                 *)
GetUserResolves ==
    /\ pc = "getUser"
    /\ \E fail \in BOOLEAN :
         LET u == StoreGetUser(userId.n, fail)
         IN  IF IsThrow(u)
             THEN /\ Throws(u.msg, <<"user">>)
                  /\ UNCHANGED <<user, calls>>
             ELSE IF u = Null
             THEN /\ Returns(Invalid("User not found or deleted", Undef), <<"user">>)
                  /\ UNCHANGED <<user, calls>>
             ELSE /\ Awaits("getUserRole", <<"user">>)
                  /\ user' = u
    /\ UNCHANGED <<world, cookie, decrypted, deciphers, sessionId, session,
                   sessionData, userId, extracted, role, fallbackRuns,
                   permThrows, decodeThrows, registry, redisClient, globalLogLevel, others,
                   decodeSaw, logs, faults>>

\* what a custom StoreInterface implementation may answer
RoleAnswers == { Null, Str("Shooter"), Str("Admin") }
PermissionAnswers == { Null, Obj([role |-> Str("Admin")]) }

\* mutant: the single-session rule applied to every role
SingleSessionViolated_AnyRole(r, u, sid) ==
    /\ Truthy(u.session_id)
    /\ u.session_id # Str(sid)

\* role === 'Shooter' && user.session_id, then user.session_id !== sessionId
SingleSessionViolated(r, u, sid) ==
    /\ r = Str("Shooter")
    /\ Truthy(u.session_id)
    /\ u.session_id # Str(sid)

\* user.google2fa_enable === 1, then !is2FAVerified(sessionData)
TwoFactorRequired(u, d) ==
    /\ u.google2fa_enable = Num(1)
    /\ ~is2FAVerified(d)

\* mutant: the second-factor gate evaluated before the single-session gate
StepsEightToTen_TwoFactorFirst(r) ==
    LET permissions == getPermissions(sessionData, config.permissionsKey)
    IN  /\ role' = r
        /\ IF TwoFactorRequired(user, sessionData)
           THEN /\ Returns(Invalid("2FA verification required", Str("2fa_required")),
                           <<"role", "twofa">>)
                /\ UNCHANGED <<extracted, calls>>
           ELSE IF SingleSessionViolated(r, user, sessionId)
           THEN /\ Returns(Invalid("Session invalidated. You were logged in elsewhere.",
                                   Str("shooter_single_session")),
                           <<"role", "twofa", "single">>)
                /\ UNCHANGED <<extracted, calls>>
           ELSE IF IsThrow(permissions)
           THEN /\ Throws(permissions.msg, <<"role", "twofa", "single", "permissions">>)
                /\ extracted' = permissions
                /\ UNCHANGED calls
           ELSE IF Truthy(permissions)
           THEN /\ Returns(Valid(user, r, permissions, sessionId, sessionData),
                           <<"role", "twofa", "single", "permissions">>)
                /\ extracted' = permissions
                /\ UNCHANGED calls
           ELSE /\ Awaits("getUserPermissions",
                          <<"role", "twofa", "single", "permissions">>)
                /\ extracted' = permissions

\* steps 8 and 9 and the session-payload half of step 10, with role r
StepsEightToTen(r) ==
    LET permissions == getPermissions(sessionData, config.permissionsKey)
    IN  /\ role' = r
        /\ IF SingleSessionViolated(r, user, sessionId)
           THEN /\ Returns(Invalid("Session invalidated. You were logged in elsewhere.",
                                   Str("shooter_single_session")),
                           <<"role", "single">>)
                /\ UNCHANGED <<extracted, calls>>
           ELSE IF TwoFactorRequired(user, sessionData)
           THEN /\ Returns(Invalid("2FA verification required", Str("2fa_required")),
                           <<"role", "single", "twofa">>)
                /\ UNCHANGED <<extracted, calls>>
           ELSE IF IsThrow(permissions)
           THEN /\ Throws(permissions.msg, <<"role", "single", "twofa", "permissions">>)
                /\ extracted' = permissions
                /\ UNCHANGED calls
           ELSE IF Truthy(permissions)
           THEN /\ Returns(Valid(user, r, permissions, sessionId, sessionData),
                           <<"role", "single", "twofa", "permissions">>)
                /\ extracted' = permissions
                /\ UNCHANGED calls
           ELSE /\ Awaits("getUserPermissions",
                          <<"role", "single", "twofa", "permissions">>)
                /\ extracted' = permissions

(* store.getUserRole resolves: step 7, then steps 8 to 10 up to            *)
(* store.getUserPermissions or to the valid result                         *)
GetUserRoleResolves ==
    /\ pc = "getUserRole"
    /\ \E fail \in BOOLEAN, ans \in RoleAnswers :
         LET r == StoreGetUserRole(userId.n, fail, ans)
         IN  /\ fallbackRuns' = fallbackRuns +
                    (IF StoreUsesFallback(userId.n, fail) THEN 1 ELSE 0)
             /\ permThrows' = permThrows +
                    (IF config.driver # "custom" /\ IsThrow(r) THEN 1 ELSE 0)
             /\ decodeThrows' = decodeThrows +
                    (IF StoreDecodeThrows(userId.n, fail) THEN 1 ELSE 0)
             /\ decodeSaw' = IF StoreDecodes(userId.n, fail) THEN DecodeSees
                              ELSE decodeSaw
             /\ logs' = IF StoreDecodes(userId.n, fail)
                         THEN logs \cup DecodeLogs("SessionDecoder",
                                 MostRecentSession(sessionsTable, userId.n).payload)
                         ELSE logs
             /\ IF IsThrow(r)
                THEN /\ Throws(r.msg, <<"role">>)
                     /\ UNCHANGED <<role, extracted, calls>>
                ELSE StepsEightToTen(r)
    /\ UNCHANGED <<world, cookie, decrypted, deciphers, sessionId, session,
                   sessionData, userId, user, registry, redisClient, globalLogLevel, others,
                   faults>>

(* store.getUserPermissions resolves: the fallback half of step 10 and     *)
(* the valid result; a throw is caught and leaves permissions null         *)
GetUserPermissionsResolves ==
    /\ pc = "getUserPermissions"
    /\ \E fail \in BOOLEAN, ans \in PermissionAnswers :
         LET p == StoreGetUserPermissions(userId.n, fail, ans)
         IN  /\ fallbackRuns' = fallbackRuns +
                    (IF StoreUsesFallback(userId.n, fail) THEN 1 ELSE 0)
             /\ permThrows' = permThrows + (IF IsThrow(p) THEN 1 ELSE 0)
             /\ decodeThrows' = decodeThrows +
                    (IF StoreDecodeThrows(userId.n, fail) THEN 1 ELSE 0)
             /\ decodeSaw' = IF StoreDecodes(userId.n, fail) THEN DecodeSees
                              ELSE decodeSaw
             /\ logs' = IF StoreDecodes(userId.n, fail)
                         THEN logs \cup DecodeLogs("SessionDecoder",
                                 MostRecentSession(sessionsTable, userId.n).payload)
                         ELSE logs
             /\ Returns(Valid(user, role, IF IsThrow(p) THEN Null ELSE p,
                              sessionId, sessionData), <<>>)
    /\ UNCHANGED <<world, cookie, decrypted, deciphers, sessionId, session,
                   sessionData, userId, extracted, user, role, calls,
                   registry, redisClient, globalLogLevel, others, faults>>

(* the caller takes the settled promise; the client is ready for the next  *)
(* validateSession call                                                    *)
Settle ==
    /\ pc = "done"
    /\ pc' = "idle"
    /\ cookie' = ""
    /\ decrypted' = NotDecrypted
    /\ deciphers' = 0
    /\ sessionId' = ""
    /\ session' = Null
    /\ sessionData' = Null
    /\ userId' = Null
    /\ extracted' = Undef
    /\ user' = Null
    /\ role' = Null
    /\ outcome' = "none"
    /\ result' = NoResult
    /\ thrown' = <<>>
    /\ calls' = <<>>
    /\ checks' = <<>>
    /\ fallbackRuns' = 0
    /\ permThrows' = 0
    /\ decodeThrows' = 0
    /\ decodeSaw' = NoDecode
    /\ logs' = {}
    /\ faults' = NoFaults
    /\ UNCHANGED <<world, registry, redisClient, globalLogLevel, others>>

----------------------------------------------------------------------------
(* Store contents and configurations the validations run against.          *)

LifetimeConfigs == { Undef } \cup { Num(l) : l \in 0..MaxLifetime }

\* last_activity values around every expiry limit in play
Activities ==
    { Now - (l * 60 + d) : l \in (0..MaxLifetime) \cup {DefaultLifetime},
                           d \in {-1, 0, 1} } \ { Now + 1 }

UserRow(g2fa, sid) ==
    [ deleted |-> FALSE, google2fa_enable |-> g2fa, session_id |-> sid ]

DeletedUserRow == [ deleted |-> TRUE, google2fa_enable |-> Num(0), session_id |-> Null ]

PlainUserRow == UserRow(Num(0), Null)

UserRows ==
    { NoRow, DeletedUserRow } \cup
    { UserRow(g, s) : g \in { Num(0), Num(1), Str("1") },
                      s \in { Null, Str(""), Str("s1"), Str("s2") } }

RoleRows == { <<>>, <<"Shooter">>, <<"Admin", "Shooter">> }

PlainPayload == MkPayload(Num(1), Undef, Undef)

\* the user_id column Laravel writes: the authenticated user, or NULL (0)
OwnerOf(payload) ==
    IF payload.kind = "map" /\ getUserId(OMap(payload.entries)).t = "number"
    THEN getUserId(OMap(payload.entries)).n ELSE 0

SessionRow(payload, t) ==
    [ user_id |-> OwnerOf(payload), payload |-> payload, last_activity |-> t ]

\* the user's other session s2: absent, or older / newer than s1
OtherPayloads ==
    { MalformedPayload, PlainPayload,
      MkPayload(Num(1), Undef, Obj([role |-> Str("Shooter")])) }

\* empty module and link permission tables
NoPermissionTables ==
    [ modules |-> << >>, module_permissions |-> << >>,
      links |-> << >>, link_permissions |-> << >> ]

ModuleRow(name, deleted) ==
    [ module_name |-> name, url |-> "/" \o name, deleted |-> deleted ]

LinkRow(name, module, deleted) ==
    [ link_name |-> name, permission_module_id |-> module,
      url |-> "/" \o name, deleted |-> deleted ]

\* modules 1 (live) and 2 (soft-deleted), links 1 (live) and 2 (soft-
\* deleted); assignments to both roles, one repeated, one soft-deleted
SomePermissionTables ==
    [ modules |-> << ModuleRow("scores", FALSE), ModuleRow("old", TRUE) >>,
      module_permissions |->
          << [ module_id |-> 1, role |-> "Shooter", deleted |-> FALSE ],
             [ module_id |-> 1, role |-> "Admin", deleted |-> FALSE ],
             [ module_id |-> 2, role |-> "Shooter", deleted |-> FALSE ],
             [ module_id |-> 1, role |-> "Shooter", deleted |-> TRUE ] >>,
      links |-> << LinkRow("list", 1, FALSE), LinkRow("gone", 1, TRUE),
                   LinkRow("edit", 1, FALSE) >>,
      link_permissions |->
          << [ link_id |-> 1, role |-> "Shooter", deleted |-> FALSE ],
             [ link_id |-> 1, role |-> "Shooter", deleted |-> FALSE ],
             [ link_id |-> 2, role |-> "Admin", deleted |-> FALSE ],
             [ link_id |-> 3, role |-> "Admin", deleted |-> TRUE ],
             [ link_id |-> 1, role |-> "Admin", deleted |-> FALSE ] >> ]

PermissionTableSets == { NoPermissionTables, SomePermissionTables }

\* the world with these module and link permission tables
WithTables(w, tables) == [ w EXCEPT !.permissionTables = tables ]

\* One world: session s1 (in the backend the driver reads), the user's
\* other session s2 in the relational table, user 1 and the user's roles.
World(driver, lifetime, p1, t1, other, urow, roles) ==
    [ config |-> [ driver |-> driver, lifetime |-> lifetime,
                   permissionsKey |-> <<>>, appKey |-> Undef, debug |-> FALSE ],
      logLevel |-> "secure",
      sessionsTable |->
          [ i \in SessionIds |->
              IF i = "s1"
              THEN (IF driver = "redis" THEN NoRow ELSE SessionRow(p1, t1))
              ELSE other ],
      redisKeys |->
          [ i \in SessionIds |->
              IF i = "s1" /\ driver = "redis" THEN SessionRow(p1, t1) ELSE NoRow ],
      usersTable |-> [ u \in UserIds |-> urow ],
      userRoles |-> [ u \in UserIds |-> roles ],
      permissionTables |-> NoPermissionTables ]

\* every gate of validate, for every user row and payload shape
GateWorlds ==
    { World(dr, Undef, p, t, NoRow, u, r) :
        dr \in Drivers, p \in Payloads,
        t \in { Now, Now - (DefaultLifetime * 60 + 1) },
        u \in UserRows, r \in { <<>>, <<"Shooter">> } }

\* every lifetime configuration against every last_activity
ExpiryWorlds ==
    { World(dr, lt, PlainPayload, t, NoRow, PlainUserRow, <<>>) :
        dr \in Drivers, lt \in LifetimeConfigs, t \in Activities }

\* a second session of the same user, and every source of role/permissions
SourceWorlds ==
    { WithTables(
        World(dr, Undef, MkPayload(Num(1), Undef, p), Now - 10,
              [ user_id |-> 1, payload |-> op, last_activity |-> Now - 10 + d ],
              u, r), t) :
        dr \in { "database", "redis" }, p \in PermissionValues,
        op \in OtherPayloads, d \in { -1, 1 },
        u \in { PlainUserRow, UserRow(Num(0), Str("s2")) }, r \in RoleRows,
        t \in PermissionTableSets }

\* PlainPayload without a CSRF token
NoTokenPayload ==
    [ kind |-> "map", entries |-> Entry("login_web_59ba", Num(1)) ]

\* the world with an appKey configured, so that cookies are decrypted
WithAppKey(w, key) ==
    [ w EXCEPT !.config = [ w.config EXCEPT !.appKey = key ] ]

\* clients that decrypt the cookie
CookieWorlds ==
    { WithAppKey(World(dr, Undef, p, Now, NoRow, u, <<>>), Str("base64:k1")) :
        dr \in { "database", "redis" },
        p \in { PlainPayload, NoTokenPayload,
                MkPayload(Num(1), Undef, Obj([role |-> Str("Admin")])) },
        u \in { PlainUserRow, DeletedUserRow } }

\* a session of user 1 holding these further entries
PayloadWith(entries) ==
    [ kind |-> "map",
      entries |-> Entry("login_web_59ba", Num(1))
                  \o Entry("_token", Str("tok123")) \o entries ]

\* where a Laravel application may leave permission data in the session
PermissionShapes ==
    { << >>,
      Entry("permissions", Obj([role |-> Str("Admin")])),
      Entry("permissions", Null),
      Entry("permissions", Str("")),
      Entry("permissions", Num(0)) \o Entry("user_permissions", Str("up")),
      Entry("auth_permissions", Str("ap")) \o Entry("user_permissions", Str("up")),
      Entry("user", Obj([permissions |-> Str("nested")]))
          \o Entry("access_permissions", Str("xp")),
      Entry("auth", Obj([permissions |-> Str("authp")]))
          \o Entry("user", Obj([permissions |-> Str("nested")])),
      Entry("user", Str("bob")) \o Entry("auth", Obj([permissions |-> Str("authp")])),
      Entry("user", Null),
      Entry("user", Obj([name |-> Str("bob")])),
      Entry("user", Obj([permissions |-> Obj([role |-> Str("Admin")])])),
      Entry("role", Str("Admin")) \o Entry("competitionIds", Arr(<<7, 9>>)),
      Entry("role", Str("Admin")) }

\* permissionsKey configurations: none, one path, several paths
PermissionsKeys ==
    { << >>,
      << <<"permissions">> >>,
      << <<"user", "permissions">> >>,
      << <<"user", "permissions", "role">> >>,
      << <<"role">>, <<"competitionIds">> >>,
      << <<"role">>, <<"user", "permissions">> >> }

\* sessions with a second auth entry, before or after the first, and with
\* other entries ahead of it
IdentityPayloads ==
    { [ kind |-> "map",
        entries |-> Entry("login_web_0c1d", Num(2)) \o Entry("login_web_59ba", Num(1)) ],
      [ kind |-> "map",
        entries |-> Entry("_token", Str("tok123")) \o Entry("login_web_59ba", Num(1))
                    \o Entry("login_web_0c1d", Num(2)) ],
      [ kind |-> "map",
        entries |-> Entry("web_login", Num(2)) \o Entry("_token", Str("tok123")) ] }

\* the world with this permissionsKey configured
WithPermissionsKey(w, keys) ==
    [ w EXCEPT !.config = [ w.config EXCEPT !.permissionsKey = keys ] ]

\* every permission shape under every permissionsKey, and the sessions
\* with several auth entries
DecoderWorlds ==
    { WithPermissionsKey(
        World(dr, Undef, PayloadWith(e), Now, NoRow, PlainUserRow, <<>>), k) :
        dr \in { "database", "custom" }, e \in PermissionShapes,
        k \in PermissionsKeys }
    \cup
    { World("database", Undef, p, Now, NoRow, PlainUserRow, <<>>) :
        p \in IdentityPayloads }

\* a Shooter's session under one path, under several paths without 'role',
\* and under several paths with 'role'; the user row names this session,
\* another session, or none
RoleWorlds ==
    { WithPermissionsKey(
        World("database", Undef, PayloadWith(e), Now, NoRow, UserRow(Num(0), s), <<>>), k) :
        e \in { Entry("permissions", Obj([role |-> Str("Shooter")])),
                Entry("permissions", Obj([role |-> Str("Shooter")]))
                    \o Entry("role", Str("Shooter")),
                Entry("modules", Arr(<<3>>)),
                Entry("role", Str("Shooter")) },
        s \in { Null, Str("s1"), Str("s2") },
        k \in { << <<"permissions">> >>,
                << <<"permissions">>, <<"modules">> >>,
                << <<"user", "permissions">>, <<"modules">> >>,
                << <<"role">>, <<"modules">> >> } }

\* the world with debug logging on and this log level
WithLogging(w, level) ==
    [ w EXCEPT !.config = [ w.config EXCEPT !.debug = TRUE ], !.logLevel = level ]

\* clients that log (config.debug), at either log level
LogWorlds ==
    { WithLogging(w, level) :
        w \in { World(dr, Undef, PlainPayload, Now, NoRow, PlainUserRow, <<>>) :
                  dr \in { "database", "redis" } }
              \cup { c \in CookieWorlds : c.usersTable[1] = PlainUserRow },
        level \in { "secure", "verbose" } }

Worlds ==
    GateWorlds \cup ExpiryWorlds \cup SourceWorlds \cup CookieWorlds
    \cup DecoderWorlds \cup LogWorlds \cup RoleWorlds

\* the configuration and store contents of world w
Installed(w) ==
    /\ config = w.config
    /\ sessionsTable = w.sessionsTable
    /\ redisKeys = w.redisKeys
    /\ usersTable = w.usersTable
    /\ userRoles = w.userRoles
    /\ permissionTables = w.permissionTables
    /\ globalLogLevel = w.logLevel
    /\ levelCalls = << [ by |-> "client", level |-> Str(w.logLevel) ] >>

\* no validation in flight, and the registry as the module defines it
Constructed ==
    /\ pc = "idle"
    /\ cookie = ""
    /\ decrypted = NotDecrypted
    /\ deciphers = 0
    /\ sessionId = ""
    /\ session = Null
    /\ sessionData = Null
    /\ userId = Null
    /\ extracted = Undef
    /\ user = Null
    /\ role = Null
    /\ outcome = "none"
    /\ result = NoResult
    /\ thrown = <<>>
    /\ calls = <<>>
    /\ checks = <<>>
    /\ fallbackRuns = 0
    /\ permThrows = 0
    /\ decodeThrows = 0
    /\ classMap = BuiltIns
    /\ registered = << >>
    /\ mappings = NoMappings
    /\ parsed = NotParsed
    /\ decodeSaw = NoDecode
    /\ logs = {}
    /\ faults = NoFaults
    /\ connected = FALSE
    /\ socket = "closed"
    /\ connects = 0
    /\ inflight = NoCalls
    /\ closing = "idle"
    /\ poolEnded = FALSE
    /\ mwpc = "idle"
    /\ req = NoRequest
    /\ res = << >>
    /\ nextCalls = 0

Init ==
    /\ \E w \in Worlds : Installed(w)
    /\ Constructed

Next ==
    \/ \E received \in CookiesFor(config) : ValidateSession(received)
    \/ GetSessionResolves
    \/ GetUserResolves
    \/ GetUserRoleResolves
    \/ GetUserPermissionsResolves
    \/ Settle

Spec == Init /\ [][Next]_vars

----------------------------------------------------------------------------
(* The class registry in use: registrations, direct parser calls and the   *)
(* inspection of the registry, interleaved with validations.               *)

\* what an application registers: a class of its own, and a replacement
\* for a built-in class
RegisteredNames == { "stdClass", "App\\Models\\Team" }
JsClassFor(className) == IF className = "stdClass" THEN "CustomClass" ELSE "Team"

\* sessions holding a serialized object of an application class, and of a
\* built-in class
TeamPayload ==
    PayloadWith(Entry("team", Instance("App\\Models\\Team", [name |-> Str("eagles")])))
StdPayload ==
    PayloadWith(Entry("flash", Instance("stdClass", [old |-> Str("")])))

\* the texts handed to PhpSerializer.unserialize directly
SerializedTexts == { TeamPayload, StdPayload, MalformedPayload }

RegistryWorlds ==
    { World(dr, Undef, p, Now, NoRow, PlainUserRow, <<>>) :
        dr \in { "database" }, p \in { TeamPayload, StdPayload } }

\* PhpSerializer.addClassMapping(className, jsClass)
AddClassMapping(className, jsClass) ==
    /\ classMap' = addClassMapping(classMap, className, jsClass)
    /\ registered' = [ n \in DOMAIN registered \cup { className } |->
                         IF n = className THEN jsClass ELSE registered[n] ]
    /\ UNCHANGED <<world, redisClient, globalLogLevel, others, logs, faults, pc, cookie, decrypted, deciphers, sessionId, session,
                   sessionData, userId, extracted, user, role, outcome, result,
                   thrown, calls, checks, fallbackRuns, permThrows,
                   decodeThrows, mappings, parsed, decodeSaw>>

\* a caller's PhpSerializer.unserialize(data)
Unserialize(data) ==
    /\ parsed' = [ called |-> TRUE, data |-> data, out |-> unserialize(data),
                   completed |-> registered,
                   removed |-> IF mappings.held
                               THEN DOMAIN BuiltIns \ DOMAIN mappings.map
                               ELSE {} ]
    /\ UNCHANGED <<world, redisClient, globalLogLevel, others, logs, faults, pc, cookie, decrypted, deciphers, sessionId, session,
                   sessionData, userId, extracted, user, role, outcome, result,
                   thrown, calls, checks, fallbackRuns, permThrows,
                   decodeThrows, classMap, registered, mappings, decodeSaw>>

\* a caller's PhpSerializer.getClassMappings()
GetClassMappings ==
    /\ mappings' = getClassMappings(classMap)
    /\ UNCHANGED <<world, redisClient, globalLogLevel, others, logs, faults, pc, cookie, decrypted, deciphers, sessionId, session,
                   sessionData, userId, extracted, user, role, outcome, result,
                   thrown, calls, checks, fallbackRuns, permThrows,
                   decodeThrows, classMap, registered, parsed, decodeSaw>>

\* the caller deletes an entry of the object getClassMappings returned; the
\* registry follows only if that object is the registry itself
DeleteFromMappings(className) ==
    LET left == [ n \in DOMAIN mappings.map \ { className } |-> mappings.map[n] ]
    IN  /\ mappings.held
        /\ className \in DOMAIN mappings.map
        /\ mappings' = [ mappings EXCEPT !.map = left ]
        /\ classMap' = IF mappings.shared THEN left ELSE classMap
        /\ UNCHANGED <<world, redisClient, globalLogLevel, others, logs, faults, pc, cookie, decrypted, deciphers, sessionId, session,
                       sessionData, userId, extracted, user, role, outcome, result,
                       thrown, calls, checks, fallbackRuns, permThrows,
                       decodeThrows, registered, parsed, decodeSaw>>

RegistryInit ==
    /\ \E w \in RegistryWorlds : Installed(w)
    /\ Constructed

RegistryNext ==
    \/ \E n \in RegisteredNames : AddClassMapping(n, JsClassFor(n))
    \/ \E data \in SerializedTexts : Unserialize(data)
    \/ GetClassMappings
    \/ \E n \in RegisteredNames : DeleteFromMappings(n)
    \/ \E received \in CookiesFor(config) : ValidateSession(received)
    \/ GetSessionResolves
    \/ GetUserResolves
    \/ GetUserRoleResolves
    \/ GetUserPermissionsResolves
    \/ Settle

RegistrySpec == RegistryInit /\ [][RegistryNext]_vars

----------------------------------------------------------------------------
(* Concurrent validateSession calls on one client with the redis driver,   *)
(* each followed to the store.getSession call of validate step 2.  The     *)
(* store contents do not change and the Redis server answers every         *)
(* request.                                                                *)

Callers == { 1, 2 }

\* client.connect() calls followed in one run
MaxConnects == 3

RedisWorlds ==
    { World("redis", Undef, p, Now, NoRow, PlainUserRow, <<>>) :
        p \in { PlainPayload, NullPayload,
                MkPayload(Num(1), Undef, Obj([role |-> Str("Admin")])) } }

\* validate(id) reaches store.getSession(id), which begins with
\* `await this.ensureConnected()`: while this.connected is false the call
\* invokes client.connect().  A client whose socket is already opening
\* either rejects the second connect ('Socket already opened') or lets it
\* join the pending one, depending on the client library.
CallGetSession(c, id) ==
    /\ inflight[c].pc = "idle"
    /\ closing # "done"
    /\ connected \/ connects < MaxConnects
    /\ IF connected
       THEN /\ inflight' = [ inflight EXCEPT ![c] = [ pc |-> "get", id |-> id, out |-> Undef ] ]
            /\ UNCHANGED <<socket, connects>>
       ELSE /\ connects' = connects + 1
            /\ IF socket = "closed"
               THEN /\ socket' = "opening"
                    /\ inflight' = [ inflight EXCEPT
                           ![c] = [ pc |-> "ensureConnected", id |-> id, out |-> Undef ] ]
               ELSE /\ UNCHANGED socket
                    /\ \E joins \in BOOLEAN :
                         inflight' = [ inflight EXCEPT
                           ![c] = IF joins
                                  THEN [ pc |-> "ensureConnected", id |-> id, out |-> Undef ]
                                  ELSE [ pc |-> "done", id |-> id,
                                         out |-> Wrap("Failed to get session from Redis",
                                                      Throw("Socket already opened")) ] ]
    /\ UNCHANGED <<world, registry, globalLogLevel, others, logs, faults, closing, poolEnded, connected, pc, cookie,
                   decrypted, deciphers, sessionId, session, sessionData, userId,
                   extracted, user, role, outcome, result, thrown, calls, checks,
                   fallbackRuns, permThrows, decodeThrows, decodeSaw>>

\* client.connect() resolves: this.connected = true, then client.get is sent
ConnectResolves(c) ==
    /\ inflight[c].pc = "ensureConnected"
    /\ socket' = IF socket = "opening" THEN "open" ELSE socket
    /\ connected' = TRUE
    /\ inflight' = [ inflight EXCEPT ![c].pc = "get" ]
    /\ UNCHANGED <<world, registry, globalLogLevel, others, logs, faults, closing, poolEnded, connects, pc, cookie,
                   decrypted, deciphers, sessionId, session, sessionData, userId,
                   extracted, user, role, outcome, result, thrown, calls, checks,
                   fallbackRuns, permThrows, decodeThrows, decodeSaw>>

\* client.get resolves: getSession returns the session record or null
GetResolves(c) ==
    /\ inflight[c].pc = "get"
    /\ inflight' = [ inflight EXCEPT
           ![c].pc = "done",
           ![c].out = IF socket = "open"
                      THEN RedisGetSession(redisKeys, inflight[c].id, FALSE)
                      ELSE Wrap("Failed to get session from Redis",
                                Throw("The client is closed")) ]
    /\ UNCHANGED <<world, registry, globalLogLevel, others, logs, faults, closing, poolEnded, connected, socket,
                   connects, pc, cookie,
                   decrypted, deciphers, sessionId, session, sessionData, userId,
                   extracted, user, role, outcome, result, thrown, calls, checks,
                   fallbackRuns, permThrows, decodeThrows, decodeSaw>>

\* the caller takes what its call produced
CallSettles(c) ==
    /\ inflight[c].pc = "done"
    /\ inflight' = [ inflight EXCEPT ![c] = [ pc |-> "idle", id |-> "", out |-> Undef ] ]
    /\ UNCHANGED <<world, registry, globalLogLevel, others, logs, faults, closing, poolEnded, connected, socket,
                   connects, pc, cookie,
                   decrypted, deciphers, sessionId, session, sessionData, userId,
                   extracted, user, role, outcome, result, thrown, calls, checks,
                   fallbackRuns, permThrows, decodeThrows, decodeSaw>>

\* the locals of the validation in flight
validation ==
    <<pc, cookie, decrypted, deciphers, sessionId, session, sessionData, userId,
      extracted, user, role, outcome, result, thrown, calls, checks,
      fallbackRuns, permThrows, decodeThrows, decodeSaw, logs, faults>>

\* close() is called: client.quit() if this.connected, else straight to
\* dbStore.close()
CallClose ==
    /\ closing = "idle"
    /\ closing' = IF connected THEN "quit" ELSE "end"
    /\ UNCHANGED <<world, registry, globalLogLevel, others, validation, connected,
                   socket, connects, inflight, poolEnded>>

\* client.quit() resolves: this.connected = false, then dbStore.close()
QuitResolves ==
    /\ closing = "quit"
    /\ socket' = "closed"
    /\ connected' = FALSE
    /\ closing' = "end"
    /\ UNCHANGED <<world, registry, globalLogLevel, others, validation, connects,
                   inflight, poolEnded>>

\* pool.end() resolves and close() with it
PoolEndResolves ==
    /\ closing = "end"
    /\ poolEnded' = TRUE
    /\ closing' = "done"
    /\ UNCHANGED <<world, registry, globalLogLevel, others, validation, connected,
                   socket, connects, inflight>>

ConcurrentInit ==
    /\ \E w \in RedisWorlds : Installed(w)
    /\ Constructed

ConcurrentNext ==
    \/ \E c \in Callers :
        \/ \E id \in SessionIds : CallGetSession(c, id)
        \/ ConnectResolves(c)
        \/ GetResolves(c)
        \/ CallSettles(c)
    \/ CallClose
    \/ QuitResolves
    \/ PoolEndResolves

ConcurrentSpec == ConcurrentInit /\ [][ConcurrentNext]_vars

----------------------------------------------------------------------------
(* The log level of the process: further clients are constructed and       *)
(* setLogLevel is called while the first client validates sessions.        *)

\* setLogLevel calls followed in one run, the first client's included
MaxLevelCalls == 3

\* config.logLevel of a client: unset, 'secure' or 'verbose'
ConfiguredLevels == { Undef, Str("secure"), Str("verbose") }

\* mutant: a client without logLevel leaves the level as it finds it
LogLevelFor_KeepCurrent(configured) ==
    IF configured = Undef THEN globalLogLevel ELSE configured.s

\* config.logLevel || 'secure'
LogLevelFor(configured) == OrElse(configured, Str("secure")).s

\* new LaravelSessionClient(config): the constructor's setLogLevel call
NewClient(configured) ==
    /\ Len(levelCalls) < MaxLevelCalls
    /\ globalLogLevel' = LogLevelFor(configured)
    /\ levelCalls' = Append(levelCalls, [ by |-> "client", level |-> configured ])
    /\ UNCHANGED <<world, registry, redisClient, validation, mwpc, req, res, nextCalls>>

\* setLogLevel(level)
SetLogLevel(level) ==
    /\ Len(levelCalls) < MaxLevelCalls
    /\ globalLogLevel' = level
    /\ levelCalls' = Append(levelCalls, [ by |-> "setLogLevel", level |-> Str(level) ])
    /\ UNCHANGED <<world, registry, redisClient, validation, mwpc, req, res, nextCalls>>

\* the first client logs (debug: true) and reads a database
LogLevelWorlds ==
    { w \in LogWorlds : w.config.driver = "database" /\ ~Truthy(w.config.appKey) }

LogLevelInit ==
    /\ \E w \in LogLevelWorlds : Installed(w)
    /\ Constructed

LogLevelNext ==
    \/ \E configured \in ConfiguredLevels : NewClient(configured)
    \/ \E level \in { "secure", "verbose" } : SetLogLevel(level)
    \/ \E received \in CookiesFor(config) : ValidateSession(received)
    \/ GetSessionResolves
    \/ GetUserResolves
    \/ GetUserRoleResolves
    \/ GetUserPermissionsResolves
    \/ Settle

LogLevelSpec == LogLevelInit /\ [][LogLevelNext]_vars

----------------------------------------------------------------------------
(* createExpressMiddleware and createNextJsMiddleware.  The two functions  *)
(* have the same body; next is the callback the framework or the route     *)
(* passes in, and it may throw.                                            *)

\* res.status(status).json({ error, message, reason })
Response(status, error, message, reason) ==
    [ status |-> status, error |-> error, message |-> message, reason |-> reason ]

\* req.cookies[client.getSessionCookieName()]: no such cookie, or its value
RequestCookies(cfg) == { Undef } \cup { Str(c) : c \in CookiesFor(cfg) }

\* the middleware is invoked: 401 when the cookie is missing or empty,
\* else up to `await client.validateSession(sessionId)`
HandleRequest(sent) ==
    /\ mwpc = "idle"
    /\ pc = "idle"
    /\ req' = [ cookie |-> sent, laravelSession |-> Undef ]
    /\ nextCalls' = 0
    /\ IF ~Truthy(sent)
       THEN /\ res' = << Response(401, "Unauthorized",
                                  Str("No session cookie found"), Undef) >>
            /\ mwpc' = "done"
       ELSE /\ res' = << >>
            /\ mwpc' = "awaiting"
    /\ UNCHANGED <<world, registry, redisClient, globalLogLevel, levelCalls, validation>>

\* validateSession has settled: 500 when it threw, 401 when the result is
\* not valid, else the result is attached and next() is called inside the
\* try block, so that a throw of next() reaches the catch clause as well
MiddlewareResumes ==
    /\ mwpc = "awaiting"
    /\ pc = "done"
    /\ mwpc' = "done"
    /\ IF outcome = "threw"
       THEN /\ res' = Append(res, Response(500, "Internal Server Error", thrown, Undef))
            /\ UNCHANGED <<req, nextCalls>>
       ELSE IF ~result.valid
       THEN /\ res' = Append(res, Response(401, "Unauthorized",
                                           result.error, result.reason))
            /\ UNCHANGED <<req, nextCalls>>
       ELSE /\ req' = [ req EXCEPT !.laravelSession = result ]
            /\ nextCalls' = nextCalls + 1
            /\ \E nextThrows \in BOOLEAN :
                 res' = IF nextThrows
                        THEN Append(res, Response(500, "Internal Server Error",
                                                  <<"thrown by next">>, Undef))
                        ELSE res
    /\ UNCHANGED <<world, registry, redisClient, globalLogLevel, levelCalls, validation>>

\* the request is over
RequestEnds ==
    /\ mwpc = "done"
    /\ pc = "idle"
    /\ mwpc' = "idle"
    /\ req' = NoRequest
    /\ res' = << >>
    /\ nextCalls' = 0
    /\ UNCHANGED <<world, registry, redisClient, globalLogLevel, levelCalls, validation>>

\* clients whose user exists, was deleted, or has two-factor sign-in on
MiddlewareWorlds ==
    { World(dr, Undef, PlainPayload, Now, NoRow, u, <<>>) :
        dr \in { "database", "redis" },
        u \in { PlainUserRow, DeletedUserRow, UserRow(Num(1), Null) } }

MiddlewareInit ==
    /\ \E w \in MiddlewareWorlds : Installed(w)
    /\ Constructed

MiddlewareNext ==
    \/ \E sent \in RequestCookies(config) : HandleRequest(sent)
    \/ mwpc = "awaiting" /\ ValidateSession(req.cookie.s)
    \/ GetSessionResolves
    \/ GetUserResolves
    \/ GetUserRoleResolves
    \/ GetUserPermissionsResolves
    \/ MiddlewareResumes
    \/ mwpc = "done" /\ Settle
    \/ RequestEnds

MiddlewareSpec == MiddlewareInit /\ [][MiddlewareNext]_vars

----------------------------------------------------------------------------
(* Properties of SessionValidator.validate                                 *)

GateOrder ==
    << "input", "lookup", "expiry", "decode", "identity", "user", "role",
       "single", "twofa", "permissions" >>

CallOrder == << "getSession", "getUser", "getUserRole", "getUserPermissions" >>

IsPrefix(a, b) ==
    /\ Len(a) <= Len(b)
    /\ \A i \in 1..Len(a) : a[i] = b[i]

\* the error strings with which each gate rejects
GateErrors(g) ==
    CASE g = "input" -> { "No session ID provided" }
      [] g = "lookup" -> { "Session not found" }
      [] g = "expiry" -> { "Session expired" }
      [] g = "decode" -> { "Failed to decode session",
                           "Failed to decode session payload" }
      [] g = "identity" -> { "User not authenticated" }
      [] g = "user" -> { "User not found or deleted" }
      [] g = "single" -> { "Session invalidated. You were logged in elsewhere." }
      [] g = "twofa" -> { "2FA verification required" }
      [] OTHER -> {}

\* the store calls made by the time each gate is evaluated
CallsAt(g) ==
    CASE g = "input" -> 0
      [] g \in { "lookup", "expiry", "decode", "identity" } -> 1
      [] g = "user" -> 2
      [] OTHER -> 3

Finished == pc = "done" /\ outcome = "returned"

Rejected == Finished /\ ~result.valid

Accepted == Finished /\ result.valid

\* C1: validate evaluates its gates in the one fixed order and makes its
\* store calls in the one fixed order, each at most once; a rejection
\* carries the error of the last gate evaluated, no store call beyond the
\* ones preceding that gate has been made, the single-session failure takes
\* precedence over the second-factor failure, and a valid result has passed
\* every gate.
C1_GatesInOrder ==
    /\ IsPrefix(checks, GateOrder)
    /\ IsPrefix(calls, CallOrder)
    /\ Rejected =>
         /\ checks # <<>>
         /\ result.error.s \in GateErrors(checks[Len(checks)])
         /\ Len(calls) = CallsAt(checks[Len(checks)])
    /\ (Rejected /\ result.reason = Str("2fa_required")) =>
         ~( /\ role = Str("Shooter")
            /\ Truthy(user.session_id)
            /\ user.session_id # Str(sessionId) )
    /\ Accepted => checks = GateOrder

\* a late gate rejects after three store calls and eight passed gates
C1_Witness ==
    /\ Rejected
    /\ result.reason = Str("2fa_required")
    /\ calls = << "getSession", "getUser", "getUserRole" >>
    /\ Len(checks) = 9

\* the permission value the decoder finds in the validated session's payload
PayloadPermissions == getPermissions(sessionData, config.permissionsKey)

\* C2: whenever the validated session's payload holds a permission value
\* and the role tables hold a fallback value for the user, the result's
\* permissions are the payload value and the table fallback
\* (getAllPermissionsFromDatabase) did not run during the validation.
C2_PayloadPermissionsWin ==
    ( /\ Accepted
      /\ PayloadPermissions \notin { Null, Undef }
      /\ userRoles[userId.n] # <<>> )
    => /\ result.permissions = PayloadPermissions
       /\ fallbackRuns = 0

\* C3: when a permission lookup of the store throws during the validation
\* of a session whose data passes the single-session and second-factor
\* gates, validate returns valid:true with permissions null.
C3_PermissionFailureNeverFails ==
    ( /\ pc = "done"
      /\ permThrows > 0
      /\ ~Truthy(user.session_id)
      /\ ~(user.google2fa_enable = Num(1)) )
    => /\ outcome = "returned"
       /\ result.valid
       /\ result.permissions = Null

\* the role lookup has returned: gates 8 and 9 were evaluated
RoleResolved == Finished /\ Len(calls) >= 3

SingleSessionFailure ==
    /\ ~result.valid
    /\ result.error = Str("Session invalidated. You were logged in elsewhere.")
    /\ result.reason = Str("shooter_single_session")

\* C4 as claimed: the single-session failure is returned exactly when the
\* role is 'Shooter' and the user's session_id is non-null and differs from
\* the validated session id.
C4_ShooterRuleNonNull ==
    RoleResolved =>
        ( SingleSessionFailure <=>
            /\ role = Str("Shooter")
            /\ user.session_id \notin { Null, Undef }
            /\ user.session_id # Str(sessionId) )

\* C4 amended: the single-session failure is returned exactly when the role
\* is 'Shooter' and the user's session_id is non-null, non-empty and
\* differs from the validated session id; no other role is ever rejected
\* by this gate.
C4_ShooterRuleNonEmpty ==
    RoleResolved =>
        ( SingleSessionFailure <=>
            /\ role = Str("Shooter")
            /\ user.session_id \notin { Null, Undef, Str("") }
            /\ user.session_id # Str(sessionId) )

\* a Shooter is rejected, and on the same kind of user row another role is not
C4_Witness ==
    /\ RoleResolved
    /\ SingleSessionFailure
    /\ role = Str("Shooter")
    /\ user.session_id = Str("s2")
    /\ sessionId = "s1"

\* C5: with the database driver, a user whose role is 'Shooter' and whose
\* stored users.session_id is set and differs from the presented session id
\* is rejected with reason 'shooter_single_session'.
C5_DatabaseDriverEnforcesShooterRule ==
    ( /\ config.driver = "database"
      /\ RoleResolved
      /\ role = Str("Shooter")
      /\ usersTable[userId.n].session_id \notin { Null, Str("") }
      /\ usersTable[userId.n].session_id # Str(sessionId) )
    => /\ ~result.valid
       /\ result.reason = Str("shooter_single_session")

TwoFactorFailure ==
    /\ ~result.valid
    /\ result.error = Str("2FA verification required")
    /\ result.reason = Str("2fa_required")

\* C6: once the single-session gate has passed, validate rejects with the
\* 2FA failure exactly when google2fa_enable is the number 1 and the
\* session's '2faVerify' entry is not the string 'true'; with any other
\* flag value the session is never rejected for 2FA.
C6_TwoFactorGate ==
    (RoleResolved /\ ~SingleSessionFailure) =>
        ( TwoFactorFailure <=>
            /\ user.google2fa_enable = Num(1)
            /\ Get(sessionData, "2faVerify") # Str("true") )

\* a boolean true under '2faVerify' does not count as verified
C6_Witness ==
    /\ RoleResolved
    /\ TwoFactorFailure
    /\ Get(sessionData, "2faVerify") = Bool(TRUE)

\* the age of the session record the expiry gate looked at, in seconds
Age == Now - session.last_activity

\* C7: for a session record that was found, validate rejects with 'Session
\* expired' exactly when now - last_activity > lifetime * 60; one second
\* past the limit is expired, exactly at the limit and one second before it
\* are not.
C7_ExpiryBoundary ==
    (Finished /\ session # Null) =>
        LET limit == SessionLifetime(config) * 60
            expired == result.error = Str("Session expired")
        IN  /\ expired <=> Age > limit
            /\ Age = limit + 1 => expired
            /\ Age = limit => ~expired
            /\ Age = limit - 1 => ~expired

\* a session exactly at the limit passes the expiry gate
C7_Witness ==
    /\ Finished
    /\ session # Null
    /\ Age = SessionLifetime(config) * 60
    /\ result.error # Str("Session expired")
    /\ Len(checks) > 3

\* the record the backend in use holds for the validated session
StoredSession ==
    IF config.driver = "redis" THEN redisKeys[sessionId]
    ELSE sessionsTable[sessionId]

\* C8: with either backend the last_activity the expiry gate uses is the
\* one the store holds for the session, so a session whose last activity is
\* older than the lifetime is rejected with 'Session expired'.
C8_StoredLastActivityUsed ==
    (Finished /\ session # Null) =>
        /\ session.last_activity = StoredSession.last_activity
        /\ (Now - StoredSession.last_activity > SessionLifetime(config) * 60)
               => result.error = Str("Session expired")

\* C9: the lifetime of the expiry gate is the configured session.lifetime
\* whenever one is configured, and 1000 minutes only when none is.
C9_ConfiguredLifetimeUsed ==
    (Finished /\ session # Null) =>
        LET minutes == IF config.lifetime = Undef THEN DefaultLifetime
                       ELSE config.lifetime.n
        IN  (result.error = Str("Session expired")) <=> (Age > minutes * 60)

\* C10: a validation during which a session-payload decode threw returns
\* {valid:false, error:'Failed to decode session'} and does not throw.
C10_DecodeExceptionsSwallowed ==
    (pc = "done" /\ decodeThrows > 0) =>
        /\ outcome = "returned"
        /\ result = Invalid("Failed to decode session", Undef)

\* the decoded session holds a key starting with 'login_web_'
HasAuthKey(d) == \E i \in 1..Len(d.e) : StartsWithLoginWeb(d.e[i].k)

\* C11: when the decoded session has no key starting with 'login_web_',
\* validate returns {valid:false, error:'User not authenticated'} and the
\* only store call made is getSession: no user, role or permission lookup.
C11_NoAuthKeyRejected ==
    (pc = "done" /\ sessionData # Null /\ ~HasAuthKey(sessionData)) =>
        /\ outcome = "returned"
        /\ result = Invalid("User not authenticated", Undef)
        /\ calls = << "getSession" >>

\* a decoded session with a CSRF token but no auth key was rejected
C11_Witness ==
    /\ Finished
    /\ sessionData # Null
    /\ ~HasAuthKey(sessionData)
    /\ HasKey(sessionData, "_token")
    /\ result.error = Str("User not authenticated")

\* the users table holds a non-deleted row with this id
LiveUserRow(uid) ==
    /\ uid \in DOMAIN usersTable
    /\ usersTable[uid] # NoRow
    /\ ~usersTable[uid].deleted

\* C12: a valid result implies that the store holds a non-deleted user row
\* whose id is the user id extracted from the session, and that row is the
\* result's user; when a user id was extracted and no such row exists
\* (missing or soft-deleted), the result validate returns is
\* {valid:false, error:'User not found or deleted'}.
C12_UserRowRequired ==
    /\ Accepted =>
          /\ LiveUserRow(userId.n)
          /\ result.user.id = userId.n
    /\ (Finished /\ userId # Null /\ ~LiveUserRow(userId.n)) =>
          result = Invalid("User not found or deleted", Undef)

\* a soft-deleted row of the extracted user id was not accepted
C12_Witness ==
    /\ Finished
    /\ userId = Num(1)
    /\ usersTable[1] # NoRow
    /\ usersTable[1].deleted
    /\ result.error = Str("User not found or deleted")

\* decoder.decrypt ran on a cookie that parses as an envelope
EnvelopeDecrypted ==
    /\ pc # "idle"
    /\ decrypted # NotDecrypted
    /\ ParseEnvelope(cookie) # Null

\* the tag in the envelope is the keyed hash of iv string + value string
TagMatches ==
    LET payload == ParseEnvelope(cookie)
    IN  payload.mac = Hmac(KeyOf(config.appKey), payload.iv \o payload.value)

\* C13: decrypt compares the envelope's tag with the keyed hash over the
\* base64 IV string concatenated with the base64 ciphertext string before
\* any block decryption: on a mismatch decrypt throws, no block decryption
\* has run and no plaintext is returned; a block decryption has run only
\* for a matching tag.
C13_TagCheckedFirst ==
    EnvelopeDecrypted =>
        /\ ~TagMatches =>
             /\ IsThrow(decrypted)
             /\ decrypted.msg[1] = "Decryption failed"
             /\ deciphers = 0
        /\ deciphers > 0 => TagMatches

\* an envelope whose ciphertext is genuine but whose tag is not was refused
C13_Witness ==
    /\ EnvelopeDecrypted
    /\ cookie = "env-forged"
    /\ IsThrow(decrypted)
    /\ deciphers = 0
    /\ sessionId = cookie

\* the first separator of the decrypted value
FirstSeparator ==
    CHOOSE k \in 1..Len(decrypted.c) :
        decrypted.c[k] = "|" /\ \A j \in 1..(k - 1) : decrypted.c[j] # "|"

\* C14: when decrypt returned a value containing '|', the session id looked
\* up is everything after the (first) separator; when it returned a value
\* without a separator, the session id is that whole value.
C14_SessionIdAfterSeparator ==
    (pc # "idle" /\ decrypted.t = "chars") =>
        IF includes(decrypted.c, "|")
        THEN sessionId = Text(SubSeq(decrypted.c, FirstSeparator + 1,
                                     Len(decrypted.c)))
        ELSE sessionId = Text(decrypted.c)

\* the session row the backend returns for the id that was looked up
LookedUp == StoreGetSession(sessionId, FALSE, FALSE)

\* C15: a valid result carries the user row the store returns for the
\* extracted user id, the '_token' entry of the decoded stored payload as
\* csrfToken, and as sessionId the id the session lookup was made with,
\* which differs from the cookie value whenever the cookie was decrypted.
C15_ValidResultFields ==
    Accepted =>
        /\ result.user = StoreGetUser(userId.n, FALSE)
        /\ HasKey(decode(LookedUp.payload), "_token") =>
             result.csrfToken = Get(decode(LookedUp.payload), "_token")
        /\ result.sessionId = Str(LookedUp.id)
        /\ result.sessionId = Str(session.id)
        /\ decrypted.t = "chars" => result.sessionId # Str(cookie)

\* a decrypted composite cookie was accepted under the inner session id
C15_Witness ==
    /\ Accepted
    /\ cookie = "env-pipe"
    /\ result.sessionId = Str("s1")
    /\ result.csrfToken = Str("tok123")
    /\ result.user.id = 1

\* C16: every invalid result has a non-empty error string and no user, role
\* or permissions; a reason is present exactly on the single-session
\* failure ('shooter_single_session') and on the second-factor failure
\* ('2fa_required'); a valid result has neither error nor reason.
C16_ResultShape ==
    Finished =>
        /\ ~result.valid =>
             /\ result.error.t = "string" /\ result.error.s # ""
             /\ result.user = Undef
             /\ result.role = Undef
             /\ result.permissions = Undef
             /\ result.reason # Undef <=>
                  result.error \in
                    { Str("Session invalidated. You were logged in elsewhere."),
                      Str("2FA verification required") }
             /\ result.error = Str("Session invalidated. You were logged in elsewhere.")
                  => result.reason = Str("shooter_single_session")
             /\ result.error = Str("2FA verification required")
                  => result.reason = Str("2fa_required")
        /\ result.valid =>
             /\ result.error = Undef
             /\ result.reason = Undef

\* both tagged failures and an untagged one occur
C16_Witness ==
    /\ Rejected
    /\ result.reason = Str("shooter_single_session")
    /\ result.user = Undef
    /\ Len(calls) = 3

\* every record the stores hold
stored ==
    << sessionsTable, redisKeys, usersTable, userRoles, permissionTables >>

\* C17: no step of a validateSession call - the call itself, any of the
\* four store lookups, or its completion - inserts, updates or deletes a
\* session, user, role or permission record: the stored data after every
\* step equal the stored data before it.
C17_ReadOnly == [][stored' = stored]_vars

\* a validation that made all four store lookups has completed
C17_Witness ==
    /\ Accepted
    /\ calls = CallOrder
    /\ fallbackRuns > 0

\* step 10 asked an in-repo store for the permissions and nothing threw
FallbackAsked ==
    /\ Accepted
    /\ calls = CallOrder
    /\ config.driver # "custom"
    /\ permThrows = 0

\* the table-derived permission set of the validated user
TableDerived ==
    getAllPermissionsFromDatabase(userRoles, permissionTables, userId.n)

\* C18: whenever the validated session's payload yields no permissions and
\* the user has role rows, the store's getUserPermissions does not return
\* null: the result carries a permission value, and it is the table-derived
\* set {role, role_arr, modules, links} unless a session payload of the
\* user supplied one.
C18_PermissionsAlwaysAvailable ==
    (FallbackAsked /\ userRoles[userId.n] # << >>) =>
        /\ result.permissions \notin { Null, Undef }
        /\ fallbackRuns > 0 => result.permissions = TableDerived

\* the rows of a sequence are pairwise different
NoDuplicates(rows) ==
    \A i, j \in 1..Len(rows) : rows[i] = rows[j] => i = j

\* some role of the user holds a live assignment of this module
ModuleAssigned(id) ==
    \E k \in 1..Len(permissionTables.module_permissions) :
        LET mp == permissionTables.module_permissions[k]
        IN  /\ mp.module_id = id /\ ~mp.deleted
            /\ \E r \in 1..Len(userRoles[userId.n]) : userRoles[userId.n][r] = mp.role

\* some role of the user holds a live assignment of this link
LinkAssigned(id) ==
    \E k \in 1..Len(permissionTables.link_permissions) :
        LET lp == permissionTables.link_permissions[k]
        IN  /\ lp.link_id = id /\ ~lp.deleted
            /\ \E r \in 1..Len(userRoles[userId.n]) : userRoles[userId.n][r] = lp.role

\* what an in-repo store's getUserPermissions yields for the validated user
PermissionLookup ==
    DbGetUserPermissions(sessionsTable, userRoles, permissionTables,
                         config.permissionsKey, userId.n, FALSE)

\* the fallback queries produced the permissions of the result
FallbackAnswered ==
    /\ FallbackAsked
    /\ StoreUsesFallback(userId.n, FALSE)

\* C19: when its queries resolve the fallback does not throw, and the
\* permission set it returns for a user with no roles is
\* {role: null, role_arr: [], modules: [], links: []}; for a user
\* with roles, role is the first element of role_arr, modules and links
\* hold no row twice, and every module or link listed is a non-deleted row
\* with a non-deleted assignment to one of the user's roles.
C19_FallbackSet ==
    FallbackAnswered =>
        LET p == result.permissions.o
        IN  /\ ~IsThrow(PermissionLookup)
            /\ result.permissions = PermissionLookup
            /\ userRoles[userId.n] = << >> =>
                 p = [ role |-> Null, role_arr |-> Arr(<< >>),
                       modules |-> Arr(<< >>), links |-> Arr(<< >>) ]
            /\ userRoles[userId.n] # << >> =>
                 /\ p.role_arr = Arr(userRoles[userId.n])
                 /\ p.role = Str(p.role_arr.a[1])
            /\ NoDuplicates(p.modules.a)
            /\ NoDuplicates(p.links.a)
            /\ \A i \in 1..Len(p.modules.a) :
                 /\ ~permissionTables.modules[p.modules.a[i].id].deleted
                 /\ ModuleAssigned(p.modules.a[i].id)
            /\ \A i \in 1..Len(p.links.a) :
                 /\ ~permissionTables.links[p.links.a[i].id].deleted
                 /\ LinkAssigned(p.links.a[i].id)

\* two roles share a module: it is listed once, the deleted ones not at all
C19_Witness ==
    /\ FallbackAnswered
    /\ Len(userRoles[userId.n]) = 2
    /\ Len(result.permissions.o.modules.a) = 1
    /\ Len(result.permissions.o.links.a) = 1
    /\ permissionTables = SomePermissionTables

\* the session rows of the validated user in the relational table
RowsOfUser ==
    { i \in DOMAIN sessionsTable :
        sessionsTable[i] # NoRow /\ sessionsTable[i].user_id = userId.n }

\* C20: the session row getUserPermissions (and so getUserRole) reads has
\* the highest last_activity among the rows whose user_id is the given
\* user, whichever session is being validated, and the role of a valid
\* result is the role field of that lookup, absent when it has none.
C20_RoleFromMostRecentSession ==
    (Accepted /\ config.driver # "custom") =>
        /\ \A i \in RowsOfUser :
             sessionsTable[i].last_activity
                 <= MostRecentSession(sessionsTable, userId.n).last_activity
        /\ result.role = OrElse(Get(PermissionLookup, "role"), Undef)

\* the role comes from the user's newer session, not the validated one
C20_Witness ==
    /\ Accepted
    /\ config.driver = "database"
    /\ sessionId = "s1"
    /\ sessionsTable["s2"] # NoRow
    /\ sessionsTable["s2"].last_activity > sessionsTable["s1"].last_activity
    /\ result.role = Str("Shooter")
    /\ Get(PayloadPermissions, "role") = Str("Admin")

----------------------------------------------------------------------------
(* Permissions taken from the session payload.                             *)

\* the values stored under `key` directly inside value v
Children(v, key) ==
    CASE v.t = "map" -> { v.e[i].v : i \in { j \in 1..Len(v.e) : v.e[j].k = key } }
      [] v.t = "object" -> IF key \in DOMAIN v.o THEN { v.o[key] } ELSE {}
      [] OTHER -> {}

RECURSIVE ValuesAt(_, _)
\* the values reached from v by following the segments of path
ValuesAt(v, path) ==
    IF path = <<>> THEN { v }
    ELSE UNION { ValuesAt(c, Tail(path)) : c \in Children(v, Head(path)) }

\* the non-null values the session holds at a configured path
ResolvedAt(path) == ValuesAt(sessionData, path) \ { Null, Undef }

\* step 10 ran getPermissions on the decoded session
Extracted == pc \in {"done", "getUserPermissions"} /\ extracted # Undef

\* the configured paths that resolve in the session
ResolvedPaths ==
    { i \in 1..Len(config.permissionsKey) : ResolvedAt(config.permissionsKey[i]) # {} }

ProbeOrder ==
    << <<"permissions">>, <<"user_permissions">>, <<"auth_permissions">>,
       <<"laravel_permissions">>, <<"role_permissions">>,
       <<"access_permissions">>, <<"user", "permissions">>,
       <<"auth", "permissions">> >>

\* the conventional locations that hold a truthy value in the session
ProbeHits ==
    { i \in 1..Len(ProbeOrder) :
        \E v \in ValuesAt(sessionData, ProbeOrder[i]) : Truthy(v) }

\* getPermissions returned the first conventional hit, or null without one
FirstHitReturned ==
    IF ProbeHits = {} THEN extracted = Null
    ELSE extracted \in
           ValuesAt(sessionData,
                    ProbeOrder[CHOOSE i \in ProbeHits : \A j \in ProbeHits : i <= j])

(* C22 as stated: without a configured path getPermissions returns the     *)
(* first conventional hit (null when there is none), and the conventional  *)
(* locations are probed only then: with a path configured that does not    *)
(* resolve, nothing else is consulted and the result is null.              *)
C22_ProbedOnlyWhenUnconfigured ==
    /\ (Extracted /\ config.permissionsKey = << >>) => FirstHitReturned
    /\ (Extracted /\ config.permissionsKey # << >> /\ ResolvedPaths = {}) =>
           extracted = Null

(* C22, amended: whenever no configured path resolves to a non-null value  *)
(* - because none is configured or because none of them is found -         *)
(* getPermissions returns the first truthy value found when probing        *)
(* permissions, user_permissions, auth_permissions, laravel_permissions,   *)
(* role_permissions, access_permissions, user.permissions and              *)
(* auth.permissions in this order, and null when none is truthy.           *)
C22_ProbedWhenNothingResolves ==
    (Extracted /\ ResolvedPaths = {}) => FirstHitReturned

\* configured paths that do not resolve; the later-inserted but
\* earlier-probed conventional key is returned
C22_Witness ==
    /\ Extracted
    /\ config.permissionsKey = << <<"role">>, <<"competitionIds">> >>
    /\ ResolvedPaths = {}
    /\ Get(sessionData, "auth_permissions") = Str("ap")
    /\ extracted = Str("up")
\* the configured paths with a segment that is missing at some level
MissingPaths ==
    { i \in 1..Len(config.permissionsKey) :
        ValuesAt(sessionData, config.permissionsKey[i]) = {} }

(* C23: the dotted-path lookup never raises: getPermissions completes      *)
(* without an exception for every session and every configured path, and   *)
(* a path with a segment missing at any level (also below a value that is  *)
(* not a map) is treated as not found: it contributes no entry to the map  *)
(* of resolved paths, and when no path resolves the conventional           *)
(* locations decide.                                                       *)
C23_LookupNeverRaises ==
    Extracted =>
        /\ ~IsThrow(extracted)
        /\ outcome # "threw"
        /\ \A i \in MissingPaths :
              IF ResolvedPaths = {} THEN FirstHitReturned
              ELSE /\ Len(config.permissionsKey) > 1
                   /\ PathName(config.permissionsKey[i]) \notin DOMAIN extracted.o

\* the path user.permissions.role below a string, and below null
C23_Witness ==
    /\ Extracted
    /\ config.permissionsKey = << <<"user", "permissions", "role">> >>
    /\ Get(sessionData, "user") = Obj([permissions |-> Str("nested")])
    /\ MissingPaths = {1}
    /\ extracted = Str("nested")
----------------------------------------------------------------------------
(* The user id taken from the session payload.                             *)

\* positions of the entries whose key starts with 'login_web_'
AuthEntries ==
    { i \in 1..Len(sessionData.e) : StartsWithLoginWeb(sessionData.e[i].k) }

\* the value getUserId returned, seen through what validate did with it
UserIdWas(v) ==
    IF Truthy(v) THEN userId = v
    ELSE /\ userId = Null
         /\ outcome = "returned" /\ result.error = Str("User not authenticated")

(* C24: getUserId returns the value stored under the first key, in the     *)
(* decoded map's insertion order, that starts with 'login_web_', and null  *)
(* when no key has that prefix; with several matching keys the first one   *)
(* in insertion order decides.                                             *)
C24_FirstAuthKey ==
    sessionData # Null =>
        IF AuthEntries = {} THEN UserIdWas(Null)
        ELSE \E i \in AuthEntries :
               /\ \A j \in AuthEntries : i <= j
               /\ UserIdWas(sessionData.e[i].v)

\* two auth entries; the one inserted first names user 2
C24_Witness ==
    /\ sessionData # Null
    /\ Cardinality(AuthEntries) = 2
    /\ sessionData.e[1].k = "login_web_0c1d"
    /\ userId = Num(2)
----------------------------------------------------------------------------
(* The class registry.                                                     *)

\* the class names of the serialized objects in a text
ClassesIn(data) ==
    { data.entries[i].v.class :
        i \in { j \in 1..Len(data.entries) : data.entries[j].v.t = "instance" } }

\* the names that were built in or registered when the parser was called
KnownAt(completed) == DOMAIN BuiltIns \cup DOMAIN completed

(* C25: unserializing a named record whose class is neither built in nor   *)
(* registered through addClassMapping fails with an error that names the   *)
(* class and yields no value; a well-formed input whose classes are all    *)
(* built in or registered - the same input after the registration - is     *)
(* parsed.                                                                 *)
C25_UnknownClassRejected ==
    parsed.called =>
        IF ClassesIn(parsed.data) \subseteq KnownAt(parsed.completed)
        THEN parsed.data.kind = "map" =>
                /\ ~IsThrow(parsed.out)
                /\ parsed.out.t = "map"
                /\ Len(parsed.out.e) = Len(parsed.data.entries)
        ELSE /\ IsThrow(parsed.out)
             /\ \E c \in ClassesIn(parsed.data) \ KnownAt(parsed.completed) :
                    parsed.out.msg = << "PHP unserialization failed",
                                        "Class " \o c \o " not found in given scope" >>

\* the session with a Team object is parsed after the class was registered
C25_Witness ==
    /\ parsed.called
    /\ parsed.data = TeamPayload
    /\ "App\\Models\\Team" \in DOMAIN parsed.completed
    /\ Get(parsed.out, "team") = Instance("Team", [name |-> Str("eagles")])
(* C26: the registry is additive: after any sequence of addClassMapping,   *)
(* unserialize and getClassMappings calls every built-in class name and    *)
(* every name ever registered is a key of the registry, and a registered   *)
(* name maps to the class of its latest registration.                      *)
C26_RegistryAdditive ==
    /\ DOMAIN BuiltIns \cup DOMAIN registered \subseteq DOMAIN classMap
    /\ \A n \in DOMAIN registered : classMap[n] = registered[n]

\* all three calls were made, a built-in name was registered again, and
\* the caller deleted entries of the object getClassMappings returned
C26_Witness ==
    /\ parsed.called
    /\ mappings.held
    /\ DOMAIN registered = RegisteredNames
    /\ classMap["stdClass"] = "CustomClass"
    /\ classMap["Carbon\\Carbon"] = "Carbon"
    /\ "stdClass" \notin DOMAIN mappings.map
(* C27: parsing has no side effect on the shared registry: a step that     *)
(* is an unserialize call, a decode, a getClassMappings call or a change   *)
(* to the object getClassMappings returned leaves the registry as it was,  *)
(* so later unserialize calls accept the same classes.                     *)
C27_ParsingLeavesRegistry ==
    [][ (parsed' # parsed \/ mappings' # mappings \/ decodeSaw' # decodeSaw)
            => classMap' = classMap ]_vars

\* stdClass was deleted from the returned object, and a text with a
\* stdClass object was parsed afterwards
C27_Witness ==
    /\ parsed.called
    /\ parsed.data = StdPayload
    /\ "stdClass" \in parsed.removed
    /\ ~IsThrow(parsed.out)
\* the built-in mappings with the completed registrations written over them
RegistryAfter(completed) ==
    [ n \in DOMAIN BuiltIns \cup DOMAIN completed |->
        IF n \in DOMAIN completed THEN completed[n] ELSE BuiltIns[n] ]

(* C28: registrations interleaved with validations that are suspended at   *)
(* store calls do not corrupt the registry: every decode of a validation   *)
(* is given a registry that holds all built-in mappings and exactly the    *)
(* registrations completed before that decode started, each entry whole.   *)
C28_DecodeSeesCompletedRegistrations ==
    decodeSaw.ran => decodeSaw.scope = RegistryAfter(decodeSaw.completed)

\* the Team class was registered while the validation was suspended at
\* store.getSession; its decode then built the Team object
C28_Witness ==
    /\ decodeSaw.ran
    /\ "App\\Models\\Team" \in DOMAIN decodeSaw.completed \ DOMAIN decodeSaw.atStart
    /\ sessionData # Null
    /\ Get(sessionData, "team") = Instance("Team", [name |-> Str("eagles")])
----------------------------------------------------------------------------
(* What the logs receive.                                                  *)

\* a log call received the full session id, a decrypted cookie value or a
\* dump of the session payload
Sensitive(l) ==
    \/ l.kind \in { "decrypted", "payload" }
    \/ l.kind = "sessionId" /\ sessionId # "" /\ l.arg = sessionId

(* C30: while the log level is 'secure', no log call of any SDK component  *)
(* - with debug on or off - receives a full session id, a decrypted cookie *)
(* value or a dump of the session payload.                                 *)
C30_SecureLogsHideSecrets ==
    globalLogLevel = "secure" => \A l \in logs : ~Sensitive(l)
----------------------------------------------------------------------------
(* Concurrent validations.                                                 *)

\* what store.getSession(id) gives a validation that runs alone
AloneGetSession(id) == RedisGetSession(redisKeys, id, FALSE)

(* C29: validations are independent: under any interleaving of validate    *)
(* calls on one client at their store-call suspension points, over         *)
(* unchanged store contents, each call gets from the store - and so        *)
(* returns - what it would if it ran alone.                                *)
C29_ValidationsIndependent ==
    \A c \in Callers :
        inflight[c].pc = "done" => inflight[c].out = AloneGetSession(inflight[c].id)
----------------------------------------------------------------------------
(* Logging and the debug flag.                                             *)

(* C31: with debug false or unset, no operation of the client, decoder,    *)
(* validator or stores emits any log output, on success or on failure.     *)
C31_SilentWithoutDebug ==
    ~config.debug => logs = {}

\* with debug off, a validation has failed at the store lookup (the store
\* threw) after a failed cookie decryption, and nothing was logged
C31_Witness ==
    /\ ~config.debug
    /\ pc = "done"
    /\ outcome = "threw"
    /\ IsThrow(decrypted)
    /\ logs = {}
----------------------------------------------------------------------------
(* Missing rows and failing queries in the store adapters.                 *)

\* store.getSession rejected: validate stopped at the lookup with an error
LookupThrew ==
    faults.ran /\ outcome = "threw" /\ checks = <<"input", "lookup">>

\* store.getSession resolved with null: validate reported 'Session not found'
LookupGaveNull ==
    faults.ran /\ outcome = "returned" /\ result = Invalid("Session not found", Undef)

\* the error a store adapter throws for a lookup query that failed
LookupError ==
    IF config.driver = "redis"
    THEN Wrap("Failed to get session from Redis", QueryFailed)
    ELSE Wrap("Failed to get session", QueryFailed)

(* C32: in DatabaseStore and RedisStore a missing row is a null result and *)
(* never an error, and a failing lookup query is a thrown error wrapping   *)
(* the cause: getSession returns null when no row has the id even if the   *)
(* follow-up count query fails, and throws only when the lookup fails.     *)
C32_MissingRowIsNull ==
    (faults.ran /\ config.driver \in { "database", "redis" }) =>
        /\ LookupThrew <=> faults.lookup
        /\ LookupThrew => thrown = LookupError.msg
        /\ (~faults.lookup /\ LookedUp = Null) => LookupGaveNull
        /\ LookupGaveNull => LookedUp = Null

\* DatabaseStore.getSession found no row, its count query failed, and the
\* validator was handed null
C32_Witness ==
    /\ config.driver = "database"
    /\ faults.count
    /\ LookupGaveNull
----------------------------------------------------------------------------
(* Cookies that fail decryption.                                           *)

(* C33: with an app key configured, a cookie that fails decryption         *)
(* (malformed envelope, tag mismatch or cipher failure) does not make      *)
(* validateSession fail: the exception is caught and the original cookie   *)
(* value is validated as the session id.                                   *)
C33_DecryptFailureFallsBack ==
    (Truthy(config.appKey) /\ pc # "idle" /\ IsThrow(decrypted)) =>
        /\ sessionId = cookie
        /\ cookie # "" => "getSession" \in { calls[i] : i \in DOMAIN calls }
        /\ outcome = "threw" => thrown # decrypted.msg

\* a cookie that failed decryption was accepted: valid:true for a value
\* that never passed tag verification
C33_Witness ==
    /\ Truthy(config.appKey)
    /\ IsThrow(decrypted)
    /\ pc = "done"
    /\ outcome = "returned"
    /\ result.valid
----------------------------------------------------------------------------
(* The role under several configured permission paths.                     *)

\* the decoded payload of the user's most recent session
LatestSessionData ==
    IF MostRecentSession(sessionsTable, userId.n) = NoRow THEN Null
    ELSE decode(MostRecentSession(sessionsTable, userId.n).payload)

\* several paths are configured, none of them 'role', and at least one
\* resolves in the user's most recent session
SeveralPathsWithoutRole ==
    /\ Len(config.permissionsKey) > 1
    /\ \A i \in 1..Len(config.permissionsKey) : config.permissionsKey[i] # <<"role">>
    /\ userId # Null
    /\ ~IsThrow(LatestSessionData)
    /\ \E i \in 1..Len(config.permissionsKey) :
         ValuesAt(LatestSessionData, config.permissionsKey[i]) \ { Null, Undef } # {}

\* store.getUserRole resolved and validate went on to step 8
RoleLookedUp == \E i \in DOMAIN checks : checks[i] = "single"

(* C34: when permissionsKey lists more than one path, none of which is     *)
(* 'role', and at least one resolves in the user's most recent session,    *)
(* DatabaseStore.getUserRole returns null, so validate reports no role and *)
(* never applies the single-session check, even for a Shooter.             *)
C34_NoRoleUnderSeveralPaths ==
    (config.driver = "database" /\ SeveralPathsWithoutRole /\ RoleLookedUp) =>
        /\ role = Null
        /\ Finished => result.reason # Str("shooter_single_session")
        /\ Accepted => result.role = Undef

\* a session whose permissions name the role 'Shooter' was accepted with
\* no role reported
C34_Witness ==
    /\ config.driver = "database"
    /\ SeveralPathsWithoutRole
    /\ Accepted
    /\ Get(Get(sessionData, "permissions"), "role") = Str("Shooter")
    /\ result.role = Undef
----------------------------------------------------------------------------
(* The process-wide log level.                                             *)

\* the level passed by the most recent client construction or setLogLevel
\* call, 'secure' standing in for an unset config.logLevel
MostRecentLevel ==
    LET last == levelCalls[Len(levelCalls)]
    IN  IF last.level = Undef THEN "secure" ELSE last.level.s

\* the 'Validating session:' line of the first client, if it was written
\* with the full session id
FullIdLogged ==
    /\ sessionId # ""
    /\ [ by |-> "LaravelSessionClient", kind |-> "sessionId", arg |-> sessionId ] \in logs

(* C35: the log level is one process-wide value: after any sequence of     *)
(* client constructions and setLogLevel calls the level in force for every *)
(* client is the one set by the most recent of them ('secure' when that    *)
(* client's logLevel is unset).                                            *)
C35_LastLevelSetWins ==
    globalLogLevel = MostRecentLevel

\* the first client was created with 'secure'; a later client was created
\* with 'verbose', after which the first logged a session id in full
C35_Witness ==
    /\ levelCalls[1].level = Str("secure")
    /\ Len(levelCalls) > 1
    /\ levelCalls[Len(levelCalls)] = [ by |-> "client", level |-> Str("verbose") ]
    /\ \A i \in 2..Len(levelCalls) : levelCalls[i].by = "client"
    /\ FullIdLogged
----------------------------------------------------------------------------
(* The RedisStore connection.                                              *)

(* C36: RedisStore connects lazily and at most once: between construction  *)
(* and the next close, client.connect() is invoked at most one time, also  *)
(* when several getSession calls are started before the first connection   *)
(* attempt has completed.                                                  *)
C36_ConnectsAtMostOnce ==
    closing = "idle" => connects <= 1

\* no getSession call is between its start and its result
NoneInFlight == \A c \in Callers : inflight[c].pc \in { "idle", "done" }

(* C37: after close() has resolved and every operation that was in flight  *)
(* has finished, no key-value connection remains open and the relational   *)
(* pool is ended, for every interleaving of close with a concurrent         *)
(* getSession.                                                             *)
C37_NothingOpenAfterClose ==
    (closing = "done" /\ NoneInFlight) => (socket = "closed" /\ poolEnded)
----------------------------------------------------------------------------
(* The middlewares.                                                        *)

(* C38: the middlewares let a request through exactly when validation      *)
(* succeeds: next() is called (once) if and only if validateSession        *)
(* returned valid:true, in which case the result is attached as            *)
(* req.laravelSession and no response is sent; otherwise exactly one       *)
(* response is sent and next() is not called - 401 without calling         *)
(* validateSession when the cookie is missing, 401 with the error and      *)
(* reason when the result is invalid, 500 when validateSession throws.     *)
C38_NextIffValid ==
    (mwpc = "done" /\ (pc = "done" \/ ~Truthy(req.cookie))) =>
        IF ~Truthy(req.cookie)
        THEN /\ pc = "idle" /\ checks = << >>
             /\ nextCalls = 0
             /\ Len(res) = 1 /\ res[1].status = 401
        ELSE IF outcome = "threw"
        THEN /\ nextCalls = 0
             /\ Len(res) = 1 /\ res[1].status = 500
        ELSE IF ~result.valid
        THEN /\ nextCalls = 0
             /\ res = << Response(401, "Unauthorized", result.error, result.reason) >>
        ELSE /\ nextCalls = 1
             /\ req.laravelSession = result
             /\ res = << >>
====
